---- MODULE Spec2Model ----
(***************************************************************************)
(* Transaction dispatcher and session repair of ClientSessionImpl          *)
(* (packages/node-opcua-client/source/private/client_session_impl.ts).     *)
(*                                                                         *)
(* A request is a record [id, kind, via]: ids are handed out in creation   *)
(* order and via tells who created it (performMessageTransaction, or a     *)
(* push on the public queue).  JavaScript runs every handler to            *)
(* completion, so one action is one handler together with everything it    *)
(* calls synchronously, the recursive drain of the pending queue included. *)
(* The channel, the owning client and the reconnection module are the      *)
(* environment.  Time is read but never tested by the dispatcher: the      *)
(* clock stands at 1, after the constructor's placeholder date 0.          *)
(***************************************************************************)
EXTENDS Integers, Sequences, FiniteSets, TLC

\* ---------------------------------------------------------------- bounds
MaxTxn == 2          \* requests created over the life of the session
MaxPrivileged == 1   \* of which privileged requests
MaxAttempt == 1      \* resubmissions of one request after session_restored
MaxClose == 1        \* calls of close
MaxDrainTxn == 5     \* requests created in SpecDrain
MaxFairTxn == 3      \* requests created in FairSpec
MaxReconnectTxn == 3 \* requests created in SpecReconnect
MaxLifeClose == 2    \* calls of close in SpecLife
MaxLifeTxn == 1      \* requests created in SpecLife
MaxTime == 3         \* largest clock reading and largest lastRequestSentTime in SpecLifetime
MaxTimeout == 3      \* largest session timeout in SpecLifetime
MaxAnswerTxn == 3    \* requests created in SpecAnswer
MaxResubmit == 3     \* resubmissions of one request in SpecRestore
MaxRestoreTxn == 2   \* requests created in SpecRestore
MaxClockTxn == 2     \* requests created in SpecClock
MaxClock == 4        \* largest clock reading in SpecClock
MaxToken == 3        \* authentication tokens the session is given in SpecToken
MaxTokenTxn == 2     \* requests created in SpecToken
MaxUserCalls == 3    \* calls of changeUser in SpecUser
MaxDefaultTxn == 3   \* requests created in SpecDefault
MaxCloseCalls == 2   \* calls of close in SpecClose
MaxSubscriptions == 2 \* subscriptions of the publish engine in SpecClose
MaxItems == 2        \* items of one service call and results of one response in SpecService

\* ------------------------------------------------------------- vocabulary
Privileged == {"PublishRequest", "ActivateSessionRequest", "CloseSessionRequest"}
Ordinary == {"ReadRequest"}
Kinds == Privileged \cup Ordinary

Good == "Good"
BadSessionIdInvalid == "BadSessionIdInvalid"
BadTimeout == "BadTimeout"
ErrSessionClosed == "Session has been closed and should not be used to perform a transaction anymore"
ErrInvalidChannel == "Invalid Channel BadConnectionClosed"
ErrCannotRecreate == "Cannot recreate session"
ErrRepairFailed == "repair failed"
Pending == "pending"
ErrInternal == "internal Error"
ErrClientSessionClosed == "ClientSession is closed !"
\* answers of the owning client without a transport error
NoResponse == "no response"                                     \* no response object
ServiceBadSessionIdInvalid == "ServiceResult is BadSessionIdInvalid" \* serviceResult of the header
ServiceBadTimeout == "ServiceResult is BadTimeout"

\* what the owning client's performMessageTransaction may call back with
Responses == {Good, BadSessionIdInvalid, BadTimeout}

\* the answers whose response header carries a service result that is not Good
ServiceErrors == {ServiceBadSessionIdInvalid, ServiceBadTimeout}

\* a transport error, or no transport error and no response, a Good response or a
\* response whose service result is not Good
Answers == Responses \cup {NoResponse} \cup ServiceErrors

\* err.message.match(/BadSessionIdInvalid/)
\* mutant: every error is taken for an invalid-session error
matchBadSessionIdInvalid_anyError(err) == err # Good

matchBadSessionIdInvalid(err) == err \in {BadSessionIdInvalid, ServiceBadSessionIdInvalid}

\* requestHandleNotSetValue of the secure channel, and a handle the channel assigned
HandleNotSet == "requestHandleNotSetValue"
HandleAssigned == "assigned"

\* this.userIdentityInfo is undefined
NoIdentity == "undefined"
\* changeUser called with no identity
NoArgument == "no argument"
\* { type: UserTokenType.Anonymous }
Anonymous == "anonymous"
Identities == {Anonymous, "userA", "userB"}
BadInternalError == "BadInternalError"
BadUserAccessDenied == "BadUserAccessDenied"
\* the error argument of callback(null, ...)
NoError == "null"

VARIABLES
    client,                    \* this._client !== null
    channelValid,              \* this._client._secureChannel.isOpened()
    clientIsReconnecting,      \* this._client.isReconnecting
    reconnecting,              \* this._reconnecting.reconnecting
    pendingTransactions,       \* this._reconnecting.pendingTransactions
    recursive_repair_detector, \* this.recursive_repair_detector
    lastRequestSentTime,
    lastResponseReceivedTime,
    now,                       \* the clock read by new Date(); 0 is the constructor's
                               \* placeholder date, long before the session exists
    inflight,                  \* requests handed to the owning client, not answered yet
    restoreListeners,          \* once("session_restored") listeners, in registration order
    repairing,                 \* calls of repair_client_session that have not returned
    completions,               \* callbacks fired so far, in order
    nextId,                    \* id of the next request
    closePending,              \* calls of _client.closeSession that have not returned
    closeEventHasBeenEmitted,  \* this._closeEventHasBeenEmitted
    sessionClosedEmitted,      \* emits of "session_closed" so far
    publishEngine,             \* this._publishEngine !== null
    keepAliveManager,          \* this._keepAliveManager !== undefined
    closeCalls,                \* calls of close so far
    closeCallbacks,            \* callbacks of close fired so far
    timeout,                   \* this.timeout
    remainingLifetime,         \* what evaluateRemainingLifetime returned last
    authenticationToken,       \* this.authenticationToken
    requestHeaders,            \* requestHeader of every request the session works on
                               \* that was sent at least once, by request id
    userIdentityInfo,          \* this.userIdentityInfo
    activations,               \* calls of _client._activateSession that have not called back
    changeUserResults,         \* what the callbacks of changeUser received, in order
    immediates,                \* callbacks handed to setImmediate that have not run
    engineSubscriptions,       \* subscriptionCount of the publish engine
    closeSessionSeen,          \* subscriptionCount of the session when close was called
                               \* and when _client.closeSession was called
    closeResults,              \* what _client.closeSession reported and what the callback
                               \* of close received
    service                    \* one call of a scalar-or-array operation: its arguments,
                               \* the answer to its transaction and what its callback got

vars == <<client, channelValid, clientIsReconnecting, reconnecting, pendingTransactions,
          recursive_repair_detector, lastRequestSentTime, lastResponseReceivedTime, now,
          inflight, restoreListeners, repairing, completions, nextId, closePending,
          closeEventHasBeenEmitted, sessionClosedEmitted, publishEngine, keepAliveManager,
          closeCalls, closeCallbacks, timeout, remainingLifetime, authenticationToken,
          requestHeaders, userIdentityInfo, activations, changeUserResults, immediates,
          engineSubscriptions, closeSessionSeen, closeResults, service>>

envVars == <<client, channelValid, clientIsReconnecting, reconnecting, now>>

lifeVars == <<closeEventHasBeenEmitted, sessionClosedEmitted, publishEngine, keepAliveManager,
              closeCalls, closeCallbacks>>

timeVars == <<timeout, remainingLifetime>>

userVars == <<userIdentityInfo, activations, changeUserResults>>

closeVars == <<engineSubscriptions, closeSessionSeen, closeResults>>

\* what the dispatcher and the life cycle of the session leave alone
restVars == <<authenticationToken, userVars, immediates, closeVars>>

\* ------------------------------------------------------- session getters
isChannelValid == client /\ channelValid

isReconnecting == IF client THEN clientIsReconnecting \/ reconnecting ELSE FALSE

\* The part of the session a handler reads and writes, as one record.
Cur ==
    [q |-> pendingTransactions,
     fl |-> inflight,
     done |-> completions,
     lrs |-> lastRequestSentTime,
     listeners |-> restoreListeners,
     detector |-> recursive_repair_detector,
     repairing |-> repairing,
     hdr |-> requestHeaders]

Install(S) ==
    /\ pendingTransactions' = S.q
    /\ inflight' = S.fl
    /\ completions' = S.done
    /\ lastRequestSentTime' = S.lrs
    /\ restoreListeners' = S.listeners
    /\ recursive_repair_detector' = S.detector
    /\ repairing' = S.repairing
    /\ requestHeaders' = S.hdr

\* a transaction on its way: the request, the callback chain it hangs on (route),
\* the attemptCount of #reprocessRequest and whether it was taken from the queue
Entry(req, route, attempt, fromQ) ==
    [req |-> req, route |-> route, attempt |-> attempt, fromQ |-> fromQ]

\* the header of request id is set to v
setHeader(h, id, v) == [x \in DOMAIN h \cup {id} |-> IF x = id THEN v ELSE h[x]]

\* the request goes back to its caller: the session no longer works on its header
dropHeader(h, id) == [x \in DOMAIN h \ {id} |-> h[x]]

\* a header that keeps the token of its first send
stampToken_keepsFirst(h, id) ==
    IF id \in DOMAIN h THEN h
    ELSE setHeader(h, id, [authenticationToken |-> authenticationToken,
                           requestHandle |-> HandleNotSet])

\* request.requestHeader.authenticationToken = this.authenticationToken
stampToken(h, id) ==
    setHeader(h, id,
        [authenticationToken |-> authenticationToken,
         requestHandle |-> IF id \in DOMAIN h THEN h[id].requestHandle ELSE HandleNotSet])

\* the secure channel gives the request a handle when it has none
channelAssignsHandle(h, id) == [h EXCEPT ![id].requestHandle = HandleAssigned]

\* request.requestHeader.requestHandle = requestHandleNotSetValue
resetHandle(h, id) ==
    IF id \in DOMAIN h THEN [h EXCEPT ![id].requestHandle = HandleNotSet] ELSE h

\* callback(err, response) of the caller
Complete(S, e, err) ==
    [S EXCEPT !.done = Append(@, [req |-> e.req, err |-> err, fromQ |-> e.fromQ]),
              !.hdr = dropHeader(@, e.req.id)]

\* mutant: no test of the channel before the send
private_performMessageTransaction_noChannelTest(S, e) ==
    IF ~client THEN [s |-> S, err |-> ErrSessionClosed]
    ELSE [s |-> [S EXCEPT !.fl = @ \cup {e}, !.lrs = now,
                          !.hdr = channelAssignsHandle(stampToken(@, e.req.id), e.req.id)],
          err |-> Pending]

\* mutant: the time of the last request is taken before the tests of client and channel
private_performMessageTransaction_stampsFirst(S, e) ==
    IF ~client THEN [s |-> [S EXCEPT !.lrs = now], err |-> ErrSessionClosed]
    ELSE IF ~isChannelValid THEN [s |-> [S EXCEPT !.lrs = now], err |-> ErrInvalidChannel]
    ELSE [s |-> [S EXCEPT !.fl = @ \cup {e}, !.lrs = now,
                          !.hdr = channelAssignsHandle(stampToken(@, e.req.id), e.req.id)],
          err |-> Pending]

\* _performMessageTransaction up to the call of this._client.performMessageTransaction:
\* err is Pending when the request went to the owning client.
private_performMessageTransaction(S, e) ==
    IF ~client THEN [s |-> S, err |-> ErrSessionClosed]
    ELSE IF ~isChannelValid THEN [s |-> S, err |-> ErrInvalidChannel]
    ELSE [s |-> [S EXCEPT !.fl = @ \cup {e}, !.lrs = now,
                          !.hdr = channelAssignsHandle(stampToken(@, e.req.id), e.req.id)],
          err |-> Pending]

\* mutant: no guard, every invalid-session error starts a repair
recreate_unguarded(S, e) ==
    [S EXCEPT !.detector = @ + 1, !.repairing = @ \cup {e}]

\* mutant: the guard is tested after the increment, so a refusal leaves it raised
recreate_countsRefusal(S, e) ==
    IF S.detector + 1 > 1 THEN Complete([S EXCEPT !.detector = @ + 1], e, ErrCannotRecreate)
    ELSE [S EXCEPT !.detector = @ + 1, !.repairing = @ \cup {e}]

\* #_recreate_session_and_reperform_transaction up to the call of repair_client_session
recreate_session_and_reperform_transaction(S, e) ==
    IF S.detector >= 1 THEN Complete(S, e, ErrCannotRecreate)
    ELSE [S EXCEPT !.detector = @ + 1, !.repairing = @ \cup {e}]

RECURSIVE reprocessRequest(_, _)
RECURSIVE reprocessCallback(_, _, _)

\* mutant: the completion shifts the queue and forgets the transaction it took
reprocessCallback_dropsHead(S, e, err) ==
    IF matchBadSessionIdInvalid(err) /\ e.req.kind # "ActivateSessionRequest"
    THEN LET S0 == [S EXCEPT !.hdr = resetHandle(@, e.req.id)] IN
         IF isReconnecting
         THEN [S0 EXCEPT !.listeners = Append(@, e)]
         ELSE recreate_session_and_reperform_transaction(S0, e)
    ELSE LET S1 == Complete(S, e, err) IN
         IF Len(S1.q) > 0 THEN [S1 EXCEPT !.q = Tail(@)] ELSE S1

\* the callback #reprocessRequest passes to _performMessageTransaction
reprocessCallback(S, e, err) ==
    IF matchBadSessionIdInvalid(err) /\ e.req.kind # "ActivateSessionRequest"
    THEN LET S0 == [S EXCEPT !.hdr = resetHandle(@, e.req.id)] IN
         IF isReconnecting
         THEN [S0 EXCEPT !.listeners = Append(@, e)]
         ELSE recreate_session_and_reperform_transaction(S0, e)
    ELSE LET S1 == Complete(S, e, err) IN
         IF Len(S1.q) > 0
         THEN reprocessRequest([S1 EXCEPT !.q = Tail(@)], Entry(Head(S1.q), "reprocess", 0, TRUE))
         ELSE S1

reprocessRequest(S, e) ==
    LET r == private_performMessageTransaction(S, e) IN
    IF r.err = Pending THEN r.s ELSE reprocessCallback(r.s, e, r.err)

\* mutant: a privileged request bypasses the queue but is sent by #reprocessRequest
performMessageTransaction_privilegedReprocessed(S, req) ==
    IF ~client THEN Complete(S, Entry(req, "direct", 0, FALSE), ErrSessionClosed)
    ELSE IF req.kind \in Privileged
    THEN reprocessRequest(S, Entry(req, "reprocess", 0, FALSE))
    ELSE IF Len(S.q) > 0
    THEN [S EXCEPT !.q = Append(@, req)]
    ELSE reprocessRequest(S, Entry(req, "reprocess", 0, FALSE))

\* mutant: queues also while a transaction is in flight
performMessageTransaction_queueWhileBusy(S, req) ==
    IF ~client THEN Complete(S, Entry(req, "direct", 0, FALSE), ErrSessionClosed)
    ELSE IF req.kind \in Privileged
    THEN LET e == Entry(req, "direct", 0, FALSE)
             r == private_performMessageTransaction(S, e) IN
         IF r.err = Pending THEN r.s ELSE Complete(r.s, e, r.err)
    ELSE IF Len(S.q) > 0 \/ S.fl # {}
    THEN [S EXCEPT !.q = Append(@, req)]
    ELSE reprocessRequest(S, Entry(req, "reprocess", 0, FALSE))

\* mutant: queues on the reconnecting flag instead of on a non-empty queue
performMessageTransaction_queueOnFlag(S, req) ==
    IF ~client THEN Complete(S, Entry(req, "direct", 0, FALSE), ErrSessionClosed)
    ELSE IF req.kind \in Privileged
    THEN LET e == Entry(req, "direct", 0, FALSE)
             r == private_performMessageTransaction(S, e) IN
         IF r.err = Pending THEN r.s ELSE Complete(r.s, e, r.err)
    ELSE IF isReconnecting
    THEN [S EXCEPT !.q = Append(@, req)]
    ELSE reprocessRequest(S, Entry(req, "reprocess", 0, FALSE))

\* mutant: only PublishRequest bypasses the queue
performMessageTransaction_onlyPublish(S, req) ==
    IF ~client THEN Complete(S, Entry(req, "direct", 0, FALSE), ErrSessionClosed)
    ELSE IF req.kind = "PublishRequest"
    THEN LET e == Entry(req, "direct", 0, FALSE)
             r == private_performMessageTransaction(S, e) IN
         IF r.err = Pending THEN r.s ELSE Complete(r.s, e, r.err)
    ELSE IF Len(S.q) > 0
    THEN [S EXCEPT !.q = Append(@, req)]
    ELSE reprocessRequest(S, Entry(req, "reprocess", 0, FALSE))

\* mutant: no test of this._client on entry
performMessageTransaction_noClosedTest(S, req) ==
    IF req.kind \in Privileged
    THEN LET e == Entry(req, "direct", 0, FALSE)
             r == private_performMessageTransaction(S, e) IN
         IF r.err = Pending THEN r.s ELSE Complete(r.s, e, r.err)
    ELSE IF Len(S.q) > 0
    THEN [S EXCEPT !.q = Append(@, req)]
    ELSE reprocessRequest(S, Entry(req, "reprocess", 0, FALSE))

performMessageTransaction(S, req) ==
    IF ~client THEN Complete(S, Entry(req, "direct", 0, FALSE), ErrSessionClosed)
    ELSE IF req.kind \in Privileged
    THEN LET e == Entry(req, "direct", 0, FALSE)
             r == private_performMessageTransaction(S, e) IN
         IF r.err = Pending THEN r.s ELSE Complete(r.s, e, r.err)
    ELSE IF Len(S.q) > 0
    THEN [S EXCEPT !.q = Append(@, req)]
    ELSE reprocessRequest(S, Entry(req, "reprocess", 0, FALSE))

\* mutant: a response is handed on as a success whatever its service result
transactionError_ignoresServiceResult(res) ==
    IF res \in {BadSessionIdInvalid, BadTimeout} THEN res
    ELSE IF res = NoResponse THEN ErrInternal
    ELSE Good

\* the err that the callback inside _performMessageTransaction hands on (Good for
\* null): the transport error, "internal Error" when there is no response, an error
\* made of the service result when that is not Good
transactionError(res) ==
    IF res \in {BadSessionIdInvalid, BadTimeout} THEN res
    ELSE IF res = NoResponse THEN ErrInternal
    ELSE IF res \in ServiceErrors THEN res
    ELSE Good

\* mutant: the answer to a replay is handled like the answer to a first attempt
channelCallback_replayRepairs(S, e, res) ==
    LET err == transactionError(res) IN
    IF e.route \in {"reprocess", "replay"} THEN reprocessCallback(S, e, err)
    ELSE Complete(S, e, err)

\* the callback _performMessageTransaction passes to this._client.performMessageTransaction
channelCallback(S, e, res) ==
    LET err == transactionError(res) IN
    IF e.route = "reprocess" THEN reprocessCallback(S, e, err) ELSE Complete(S, e, err)

\* mutant: the replay is handed to the channel without the tests of the direct send
repairCallback_rawReplay(S, e, ok) ==
    LET S1 == [S EXCEPT !.detector = @ - 1, !.repairing = @ \ {e}] IN
    IF ~ok THEN Complete(S1, e, ErrRepairFailed)
    ELSE [S1 EXCEPT !.fl = @ \cup {[e EXCEPT !.route = "replay"]}, !.lrs = now,
                    !.hdr = channelAssignsHandle(stampToken(@, e.req.id), e.req.id)]

\* mutant: the replay goes back through the queueing logic of performMessageTransaction
repairCallback_throughQueue(S, e, ok) ==
    LET S1 == [S EXCEPT !.detector = @ - 1, !.repairing = @ \ {e}] IN
    IF ~ok THEN Complete(S1, e, ErrRepairFailed)
    ELSE performMessageTransaction(S1, e.req)

\* mutant: a failed repair also discards the transactions waiting on the queue
repairCallback_failsQueue(S, e, ok) ==
    LET S1 == [S EXCEPT !.detector = @ - 1, !.repairing = @ \ {e}] IN
    IF ~ok THEN [Complete(S1, e, ErrRepairFailed) EXCEPT !.q = <<>>]
    ELSE LET e2 == [e EXCEPT !.route = "replay"]
             r == private_performMessageTransaction(S1, e2) IN
         IF r.err = Pending THEN r.s ELSE Complete(r.s, e2, r.err)

\* mutant: a failed repair delivers its error and replays the request all the same
repairCallback_replaysAfterFailure(S, e, ok) ==
    LET S1 == [S EXCEPT !.detector = @ - 1, !.repairing = @ \ {e}]
        S2 == IF ok THEN S1 ELSE Complete(S1, e, ErrRepairFailed)
        e2 == [e EXCEPT !.route = "replay"]
        r == private_performMessageTransaction(S2, e2) IN
    IF r.err = Pending THEN r.s ELSE Complete(r.s, e2, r.err)

\* mutant: a failed repair completes its caller on the path that drains the queue
repairCallback_drainsOnFailure(S, e, ok) ==
    LET S1 == [S EXCEPT !.detector = @ - 1, !.repairing = @ \ {e}] IN
    IF ~ok
    THEN LET S2 == Complete(S1, e, ErrRepairFailed) IN
         IF Len(S2.q) > 0
         THEN reprocessRequest([S2 EXCEPT !.q = Tail(@)], Entry(Head(S2.q), "reprocess", 0, TRUE))
         ELSE S2
    ELSE LET e2 == [e EXCEPT !.route = "replay"]
             r == private_performMessageTransaction(S1, e2) IN
         IF r.err = Pending THEN r.s ELSE Complete(r.s, e2, r.err)

\* mutant: a failed repair returns before the guard is lowered
repairCallback_guardStuckOnFailure(S, e, ok) ==
    IF ~ok THEN Complete([S EXCEPT !.repairing = @ \ {e}], e, ErrRepairFailed)
    ELSE LET S1 == [S EXCEPT !.detector = @ - 1, !.repairing = @ \ {e}]
             e2 == [e EXCEPT !.route = "replay"]
             r == private_performMessageTransaction(S1, e2) IN
         IF r.err = Pending THEN r.s ELSE Complete(r.s, e2, r.err)

\* the callback #_recreate_session_and_reperform_transaction passes to repair_client_session
repairCallback(S, e, ok) ==
    LET S1 == [S EXCEPT !.detector = @ - 1, !.repairing = @ \ {e}] IN
    IF ~ok THEN Complete(S1, e, ErrRepairFailed)
    ELSE LET e2 == [e EXCEPT !.route = "replay"]
             r == private_performMessageTransaction(S1, e2) IN
         IF r.err = Pending THEN r.s ELSE Complete(r.s, e2, r.err)

RECURSIVE emitSessionRestored_sameAttempt(_, _)
\* mutant: the listener resubmits with the attempt count it was registered with
emitSessionRestored_sameAttempt(S, ls) ==
    IF ls = <<>> THEN S
    ELSE emitSessionRestored_sameAttempt(reprocessRequest(S, Head(ls)), Tail(ls))

RECURSIVE emitSessionRestored_givesUp(_, _)
\* mutant: a request that was resubmitted before is failed instead of sent again
emitSessionRestored_givesUp(S, ls) ==
    IF ls = <<>> THEN S
    ELSE IF Head(ls).attempt >= 1
    THEN emitSessionRestored_givesUp(Complete(S, Head(ls), BadSessionIdInvalid), Tail(ls))
    ELSE emitSessionRestored_givesUp(
             reprocessRequest(S, [Head(ls) EXCEPT !.attempt = @ + 1]), Tail(ls))

RECURSIVE emitSessionRestored(_, _)
\* emit("session_restored"): the once-listeners registered before the emit run in order
emitSessionRestored(S, ls) ==
    IF ls = <<>> THEN S
    ELSE emitSessionRestored(reprocessRequest(S, [Head(ls) EXCEPT !.attempt = @ + 1]), Tail(ls))

\* ------------------------------------------- scalar-or-array operations
\* what the callback of an operation receives; a scalar is held as a sequence of one
Outcome(kind, value) == [kind |-> kind, value |-> value]
NoOutcome == Outcome("none", <<>>)
ErrorOutcome == Outcome("error", <<>>)      \* callback(err)
InternalError == Outcome("internalError", <<>>)   \* callback(new Error("Internal Error"))
PromotionError == Outcome("promotionError", <<>>) \* the promotion rejects: callback(err)
AwaitingPromotion == Outcome("promoting", <<>>)   \* the promise is pending: no callback yet
Thrown == Outcome("throws", <<>>)           \* assert fails: the callback is never called

\* response.results || []
resultsOrEmpty(response) == IF response.hasResults THEN response.results ELSE <<>>

\* mutant: the results are handed over as an array whatever the form of the argument
scalarOrArray_alwaysArray(isArray, results) == Outcome("array", results)

\* isArray ? results : results[0]
scalarOrArray(isArray, results) ==
    IF isArray THEN Outcome("array", results)
    ELSE IF Len(results) > 0 THEN Outcome("scalar", <<results[1]>>)
    ELSE Outcome("undefined", <<>>)

\* browse, browseNext: assert(results[0] instanceof BrowseResult)
browse(isArray, n, response) ==
    LET results == resultsOrEmpty(response) IN
    IF response.type # "expected" THEN InternalError
    ELSE IF Len(results) = 0 THEN Thrown ELSE scalarOrArray(isArray, results)

browseNext(isArray, n, response) ==
    LET results == resultsOrEmpty(response) IN
    IF response.type # "expected" THEN InternalError
    ELSE IF Len(results) = 0 THEN Thrown ELSE scalarOrArray(isArray, results)

\* readVariableValue, readHistoryValue, readAggregateValue, write:
\* assert(nodes.length === response.results.length)
readVariableValue(isArray, n, response) ==
    LET results == resultsOrEmpty(response) IN
    IF response.type # "expected" THEN InternalError
    ELSE IF n # Len(results) THEN Thrown ELSE scalarOrArray(isArray, results)

readHistoryValue(isArray, n, response) ==
    LET results == resultsOrEmpty(response) IN
    IF response.type # "expected" THEN InternalError
    ELSE IF n # Len(results) THEN Thrown ELSE scalarOrArray(isArray, results)

readAggregateValue(isArray, n, response) ==
    LET results == resultsOrEmpty(response) IN
    IF response.type # "expected" THEN InternalError
    ELSE IF n # Len(results) THEN Thrown ELSE scalarOrArray(isArray, results)

write(isArray, n, response) ==
    LET results == resultsOrEmpty(response) IN
    IF response.type # "expected" THEN InternalError
    ELSE IF n # Len(results) THEN Thrown ELSE scalarOrArray(isArray, results)

\* read, call: the results go through the promotion of opaque structures, a promise
\* of another package; the callback of the transaction returns with the promise pending
read(isArray, n, response) ==
    IF response.type # "expected" THEN InternalError ELSE AwaitingPromotion

call(isArray, n, response) ==
    IF response.type # "expected" THEN InternalError ELSE AwaitingPromotion

translateBrowsePath(isArray, n, response) ==
    IF response.type # "expected" THEN InternalError
    ELSE scalarOrArray(isArray, resultsOrEmpty(response))

\* setPublishingMode goes through _defaultRequest, which ignores its _responseClass:
\* only a missing response is tested for, and that one arrives as an error
setPublishingMode(isArray, n, response) == scalarOrArray(isArray, resultsOrEmpty(response))

Promoting == {"read", "call"}
Operations ==
    {"browse", "browseNext", "readVariableValue", "readHistoryValue", "readAggregateValue",
     "write", "translateBrowsePath", "setPublishingMode"} \cup Promoting

\* the callback the operation passes to performMessageTransaction
serviceCallback(c) ==
    IF c.err THEN ErrorOutcome
    ELSE CASE c.op = "browse" -> browse(c.isArray, c.n, c.response)
           [] c.op = "browseNext" -> browseNext(c.isArray, c.n, c.response)
           [] c.op = "readVariableValue" -> readVariableValue(c.isArray, c.n, c.response)
           [] c.op = "readHistoryValue" -> readHistoryValue(c.isArray, c.n, c.response)
           [] c.op = "readAggregateValue" -> readAggregateValue(c.isArray, c.n, c.response)
           [] c.op = "write" -> write(c.isArray, c.n, c.response)
           [] c.op = "read" -> read(c.isArray, c.n, c.response)
           [] c.op = "call" -> call(c.isArray, c.n, c.response)
           [] c.op = "translateBrowsePath" -> translateBrowsePath(c.isArray, c.n, c.response)
           [] c.op = "setPublishingMode" -> setPublishingMode(c.isArray, c.n, c.response)

\* calls of the caller's callback made by a callback of the transaction that ends
\* with the outcome o
callsMade(o) == IF o \in {NoOutcome, Thrown, AwaitingPromotion} THEN 0 ELSE 1

\* promoteOpaqueStructure(...).then(() => callback(null, ...)).catch((err) => callback(err)):
\* what the caller receives first and how often its callback is called. The catch
\* also takes what the then-handler throws, that is what the caller's callback throws.
promotionSettled(c) ==
    IF c.promote = "rejects" THEN [outcome |-> PromotionError, calls |-> 1]
    ELSE [outcome |-> scalarOrArray(c.isArray, resultsOrEmpty(c.response)),
          calls |-> IF c.callbackThrows THEN 2 ELSE 1]

\* one call: its arguments, how the transaction is answered, how the promotion
\* settles (promote), whether the caller's callback throws, and what has happened
ServiceCall(op, isArray, n, err, response, promote, callbackThrows) ==
    [op |-> op, isArray |-> isArray, n |-> n, err |-> err, response |-> response,
     promote |-> promote, callbackThrows |-> callbackThrows, outcome |-> NoOutcome,
     calls |-> 0]

\* no operation has been called
NoService ==
    ServiceCall("none", FALSE, 0, FALSE,
                [type |-> "expected", hasResults |-> FALSE, results |-> <<>>], "resolves", FALSE)

\* ------------------------------------------------------------------ Init
Init ==
    /\ client = TRUE
    /\ channelValid = TRUE
    /\ clientIsReconnecting = FALSE
    /\ reconnecting = FALSE
    /\ pendingTransactions = <<>>
    /\ recursive_repair_detector = 0
    /\ lastRequestSentTime = 0
    /\ lastResponseReceivedTime = 0
    /\ now = 1
    /\ inflight = {}
    /\ restoreListeners = <<>>
    /\ repairing = {}
    /\ completions = <<>>
    /\ nextId = 1
    /\ closePending = 0
    /\ closeEventHasBeenEmitted = FALSE
    /\ sessionClosedEmitted = 0
    /\ publishEngine = FALSE
    /\ keepAliveManager = FALSE
    /\ closeCalls = 0
    /\ closeCallbacks = 0
    /\ timeout = 0
    /\ remainingLifetime = 0
    /\ authenticationToken = 1
    /\ userIdentityInfo = NoIdentity
    /\ activations = {}
    /\ changeUserResults = <<>>
    /\ immediates = <<>>
    /\ engineSubscriptions = 0
    /\ closeSessionSeen = {}
    /\ closeResults = {}
    /\ requestHeaders = [x \in {} |-> HandleNotSet]
    /\ service = NoService

\* ------------------------------------------------------ derived state
SeqRange(s) == {s[i] : i \in 1..Len(s)}

\* every request created so far, wherever it is now
Requests ==
    SeqRange(pendingTransactions)
        \cup {e.req : e \in inflight \cup SeqRange(restoreListeners) \cup repairing}
        \cup {c.req : c \in SeqRange(completions)}

\* --------------------------------------------------------------- actions
\* the application (or the owning client) calls session.performMessageTransaction
Submit(kinds, maxId) ==
    \E k \in kinds :
        /\ nextId <= maxId
        /\ k \in Privileged => Cardinality({r \in Requests : r.kind \in Privileged}) < MaxPrivileged
        /\ Install(performMessageTransaction(Cur, [id |-> nextId, kind |-> k, via |-> "submit"]))
        /\ nextId' = nextId + 1
        /\ UNCHANGED <<envVars, lastResponseReceivedTime, closePending, restVars, lifeVars, timeVars, service>>

\* the owning client answers a request
ChannelResponse(responses) ==
    \E e \in inflight, res \in responses :
        /\ lastResponseReceivedTime' = now
        /\ Install(channelCallback([Cur EXCEPT !.fl = @ \ {e}], e, res))
        /\ UNCHANGED <<envVars, nextId, closePending, restVars, lifeVars, timeVars, service>>

\* repair_client_session calls back
RepairReturns ==
    \E e \in repairing, ok \in BOOLEAN :
        /\ Install(repairCallback(Cur, e, ok))
        /\ UNCHANGED <<envVars, lastResponseReceivedTime, nextId, closePending, restVars, lifeVars, timeVars, service>>

\* the reconnection module emits "session_restored"
SessionRestored(maxAttempt) ==
    /\ restoreListeners # <<>>
    /\ \A i \in 1..Len(restoreListeners) : restoreListeners[i].attempt < maxAttempt
    /\ Install(emitSessionRestored([Cur EXCEPT !.listeners = <<>>], restoreListeners))
    /\ UNCHANGED <<envVars, lastResponseReceivedTime, nextId, closePending, restVars, lifeVars, timeVars, service>>

\* a holder of the Reconnectable interface parks a transaction on the public queue
ReconnectablePush(maxId) ==
    /\ client
    /\ nextId <= maxId
    /\ pendingTransactions' =
           Append(pendingTransactions, [id |-> nextId, kind |-> "ReadRequest", via |-> "push"])
    /\ nextId' = nextId + 1
    /\ UNCHANGED <<envVars, recursive_repair_detector, lastRequestSentTime,
                   lastResponseReceivedTime, inflight, restoreListeners, repairing,
                   completions, requestHeaders, closePending, restVars, lifeVars,
                   timeVars, service>>

\* a #reprocessRequest is waiting for its answer: its callback will drain the queue
DrainWorker == \E e \in inflight : e.route = "reprocess"

\* the same push, made only while a transaction that will drain the queue is in flight
ReconnectablePushBehindWorker(maxId) ==
    /\ DrainWorker
    /\ ReconnectablePush(maxId)

sessionVars == <<pendingTransactions, recursive_repair_detector, lastRequestSentTime,
                 lastResponseReceivedTime, inflight, restoreListeners, repairing,
                 completions, nextId, requestHeaders>>

\* get subscriptionCount(): the count of the engine, 0 without an engine
subscriptionCount(engine, subscriptions) == IF engine THEN subscriptions ELSE 0

\* mutant: the callback of close receives what closeSession reported
closeSessionCallback_passesError(err) == err

\* the callback close hands to _client.closeSession calls callback(): whether the
\* caller of close receives an error
closeSessionCallback(err) == FALSE

\* _terminatePublishEngine(): the value of this._publishEngine afterwards
terminatePublishEngine(engine) == FALSE

\* stopKeepAliveManager(): the value of this._keepAliveManager afterwards
stopKeepAliveManager(manager) == FALSE

\* close(deleteSubscription, callback): without a client the callback fires at once,
\* otherwise the publish engine is terminated and _client.closeSession is called
Close(maxCalls) ==
    /\ closeCalls < maxCalls
    /\ closeCalls' = closeCalls + 1
    /\ IF ~client
       THEN /\ closeCallbacks' = closeCallbacks + 1
            /\ closeResults' = closeResults \cup {[reported |-> FALSE, received |-> FALSE]}
            /\ UNCHANGED <<publishEngine, closePending, engineSubscriptions,
                           closeSessionSeen>>
       ELSE /\ publishEngine' = terminatePublishEngine(publishEngine)
            /\ engineSubscriptions' = 0
            /\ closeSessionSeen' = closeSessionSeen \cup
                   {[atCall |-> subscriptionCount(publishEngine, engineSubscriptions),
                     atRequest |-> subscriptionCount(terminatePublishEngine(publishEngine),
                                                     engineSubscriptions)]}
            /\ closePending' = closePending + 1
            /\ UNCHANGED <<closeCallbacks, closeResults>>
    /\ UNCHANGED <<envVars, sessionVars, closeEventHasBeenEmitted, sessionClosedEmitted,
                   keepAliveManager, authenticationToken, userVars, immediates, timeVars,
                   service>>

\* the owning client's closeSession calls back: the session is detached from its
\* client and the callback of close fires
CloseSessionReturns(errors) ==
    \E err \in errors :
        /\ closePending > 0
        /\ closePending' = closePending - 1
        /\ client' = FALSE
        /\ closeCallbacks' = closeCallbacks + 1
        /\ closeResults' = closeResults \cup
               {[reported |-> err, received |-> closeSessionCallback(err)]}
        /\ UNCHANGED <<channelValid, clientIsReconnecting, reconnecting, now, sessionVars,
                       closeEventHasBeenEmitted, sessionClosedEmitted, publishEngine,
                       keepAliveManager, closeCalls, authenticationToken, userVars,
                       immediates, engineSubscriptions, closeSessionSeen, timeVars,
                       service>>

\* mutant: the emit is not guarded by the flag
emitCloseEvent_unguarded(emitted, count) == [emitted |-> TRUE, count |-> count + 1]

\* emitCloseEvent(statusCode): the flag and the number of emits afterwards
emitCloseEvent(emitted, count) ==
    IF ~emitted THEN [emitted |-> TRUE, count |-> count + 1]
    ELSE [emitted |-> emitted, count |-> count]

\* the owning client, or _defaultRequest on BadSessionClosed, calls emitCloseEvent
EmitCloseEvent ==
    LET r == emitCloseEvent(closeEventHasBeenEmitted, sessionClosedEmitted) IN
    /\ closeEventHasBeenEmitted' = r.emitted
    /\ sessionClosedEmitted' = r.count
    /\ UNCHANGED <<envVars, sessionVars, closePending, restVars, publishEngine, keepAliveManager,
                   closeCalls, closeCallbacks, timeVars, service>>

\* request classes handed to _defaultRequest: one that the dispatcher sends
\* directly and one that it queues behind waiting transactions
DefaultKinds == {"PublishRequest", "CreateSubscriptionRequest"}

\* mutant: the request of a closed session goes to performMessageTransaction
defaultRequest_sendsWhenClosed(D, req) ==
    [D EXCEPT !.s = performMessageTransaction(D.s, req)]

\* _defaultRequest(requestClass, _responseClass, options, callback) on the session
\* D.s with the callbacks D.immediates waiting in setImmediate
defaultRequest(D, req) ==
    IF closeEventHasBeenEmitted
    THEN [D EXCEPT !.immediates = Append(@, req)]
    ELSE [D EXCEPT !.s = performMessageTransaction(D.s, req)]

\* an operation of the subscription service set calls _defaultRequest
DefaultRequest(kinds, maxId) ==
    \E k \in kinds :
        LET D == defaultRequest([s |-> Cur, immediates |-> immediates],
                                [id |-> nextId, kind |-> k, via |-> "defaultRequest"])
        IN  /\ nextId <= maxId
            /\ Install(D.s)
            /\ immediates' = D.immediates
            /\ nextId' = nextId + 1
            /\ UNCHANGED <<envVars, lastResponseReceivedTime, closePending, lifeVars,
                           timeVars, authenticationToken, userVars, closeVars, service>>

\* the callback _defaultRequest handed to setImmediate runs
ImmediateRuns ==
    /\ immediates # <<>>
    /\ Install(Complete(Cur, Entry(Head(immediates), "direct", 0, FALSE),
                        ErrClientSessionClosed))
    /\ immediates' = Tail(immediates)
    /\ UNCHANGED <<envVars, lastResponseReceivedTime, nextId, closePending, lifeVars,
                   timeVars, authenticationToken, userVars, closeVars, service>>

\* getPublishEngine() creates the engine when there is none
GetPublishEngine ==
    /\ publishEngine' = TRUE
    /\ engineSubscriptions' = IF publishEngine THEN engineSubscriptions ELSE 0
    /\ UNCHANGED <<envVars, sessionVars, closePending, authenticationToken, userVars,
                   immediates, closeSessionSeen, closeResults, closeEventHasBeenEmitted,
                   sessionClosedEmitted, keepAliveManager, closeCalls, closeCallbacks,
                   timeVars, service>>

\* a subscription registers with the publish engine
RegisterSubscription(maxSubscriptions) ==
    /\ publishEngine
    /\ engineSubscriptions < maxSubscriptions
    /\ engineSubscriptions' = engineSubscriptions + 1
    /\ UNCHANGED <<envVars, sessionVars, closePending, authenticationToken, userVars,
                   immediates, closeSessionSeen, closeResults, lifeVars, timeVars,
                   service>>

\* startKeepAliveManager() creates and starts the manager when there is none
StartKeepAliveManager ==
    /\ keepAliveManager' = TRUE
    /\ UNCHANGED <<envVars, sessionVars, closePending, restVars, closeEventHasBeenEmitted,
                   sessionClosedEmitted, publishEngine, closeCalls, closeCallbacks,
                   timeVars, service>>

StopKeepAliveManager ==
    /\ keepAliveManager' = stopKeepAliveManager(keepAliveManager)
    /\ UNCHANGED <<envVars, sessionVars, closePending, restVars, closeEventHasBeenEmitted,
                   sessionClosedEmitted, publishEngine, closeCalls, closeCallbacks,
                   timeVars, service>>

\* dispose(): asserts that the close event has been emitted, then releases the
\* publish engine, the keep-alive manager and every listener
Dispose ==
    /\ closeEventHasBeenEmitted
    /\ publishEngine' = terminatePublishEngine(publishEngine)
    /\ engineSubscriptions' = 0
    /\ keepAliveManager' = stopKeepAliveManager(keepAliveManager)
    /\ restoreListeners' = <<>>
    /\ UNCHANGED <<envVars, pendingTransactions, recursive_repair_detector,
                   lastRequestSentTime, lastResponseReceivedTime, inflight, repairing,
                   completions, nextId, requestHeaders, closePending,
                   authenticationToken, userVars, immediates, closeSessionSeen,
                   closeResults, closeEventHasBeenEmitted, sessionClosedEmitted,
                   closeCalls, closeCallbacks, timeVars, service>>

\* Math.max
MathMax(a, b) == IF a >= b THEN a ELSE b

\* mutant: the difference is returned without the floor at 0
evaluateRemainingLifetime_noFloor(lrs, tmo, t) == (lrs + tmo) - t

\* evaluateRemainingLifetime() with this.lastRequestSentTime.getTime() = lrs,
\* this.timeout = tmo and Date.now() = t
evaluateRemainingLifetime(lrs, tmo, t) ==
    LET expiryTime == lrs + tmo IN MathMax(0, expiryTime - t)

\* the application asks for the remaining lifetime
EvaluateRemainingLifetime ==
    /\ remainingLifetime' = evaluateRemainingLifetime(lastRequestSentTime, timeout, now)
    /\ UNCHANGED <<envVars, sessionVars, closePending, restVars, lifeVars, timeout, service>>

\* the last reading of the clock in SpecLifetime: past every expiry time
MaxNow == MaxTime + MaxTimeout + 1

\* the clock advances
Tick(maxNow) ==
    /\ now < maxNow
    /\ now' = now + 1
    /\ UNCHANGED <<client, channelValid, clientIsReconnecting, reconnecting, sessionVars,
                   closePending, restVars, lifeVars, timeVars, service>>

\* the transaction of the operation calls back
ServiceCallback ==
    /\ service.op \in Operations
    /\ service.outcome = NoOutcome
    /\ service' = [service EXCEPT !.outcome = serviceCallback(service),
                                  !.calls = callsMade(serviceCallback(service))]
    /\ UNCHANGED <<envVars, sessionVars, closePending, restVars, lifeVars, timeVars>>

\* the promise of the promotion settles
PromotionSettles ==
    /\ service.outcome = AwaitingPromotion
    /\ service' = [service EXCEPT !.outcome = promotionSettled(service).outcome,
                                  !.calls = promotionSettled(service).calls]
    /\ UNCHANGED <<envVars, sessionVars, closePending, restVars, lifeVars, timeVars>>

\* the secure channel opens or breaks
ChannelChange ==
    /\ channelValid' = ~channelValid
    /\ UNCHANGED <<client, clientIsReconnecting, reconnecting, now, sessionVars, closePending, restVars, lifeVars, timeVars, service>>

\* the owning client starts or ends its own reconnection
ClientReconnectingChange ==
    /\ clientIsReconnecting' = ~clientIsReconnecting
    /\ UNCHANGED <<client, channelValid, reconnecting, now, sessionVars, closePending, restVars, lifeVars, timeVars, service>>

\* the reconnection module sets or clears _reconnecting.reconnecting
ReconnectingChange ==
    /\ reconnecting' = ~reconnecting
    /\ UNCHANGED <<client, channelValid, clientIsReconnecting, now, sessionVars, closePending, restVars, lifeVars, timeVars, service>>

\* -------------------------------------------------------------- changeUser
\* the identity of the session, the activations under way and what the callers of
\* changeUser received, as one record
CurUser ==
    [identity |-> userIdentityInfo, pending |-> activations, results |-> changeUserResults]

InstallUser(U) ==
    /\ userIdentityInfo' = U.identity
    /\ activations' = U.pending
    /\ changeUserResults' = U.results

\* userIdentityInfo || { type: UserTokenType.Anonymous }
identityOrAnonymous(arg) == IF arg = NoArgument THEN Anonymous ELSE arg

\* callback(null, status) of changeUser
changeUserCallback(U, id, status) ==
    [U EXCEPT !.results = Append(@, [id |-> id, err |-> NoError, status |-> status])]

\* changeUser(userIdentityInfo, callback), call number id
changeUser(U, arg, id) ==
    IF ~client \/ U.identity = NoIdentity
    THEN changeUserCallback(U, id, BadInternalError)
    ELSE [U EXCEPT !.pending = @ \cup {[id |-> id, old |-> U.identity,
                                         new |-> identityOrAnonymous(arg)]}]

\* mutant: a failed activation leaves the identity as it finds it
activateSessionCallback_noRestore(U, a, err1) ==
    IF err1
    THEN changeUserCallback([U EXCEPT !.pending = @ \ {a}], a.id, BadUserAccessDenied)
    ELSE changeUserCallback([U EXCEPT !.pending = @ \ {a}, !.identity = a.new], a.id, Good)

\* the callback changeUser hands to _client._activateSession
activateSessionCallback(U, a, err1) ==
    IF err1
    THEN changeUserCallback([U EXCEPT !.pending = @ \ {a}, !.identity = a.old],
                            a.id, BadUserAccessDenied)
    ELSE changeUserCallback([U EXCEPT !.pending = @ \ {a}, !.identity = a.new], a.id, Good)

\* the calls of changeUser made so far
changeUserCalls == Len(changeUserResults) + Cardinality(activations)

ChangeUser(maxCalls) ==
    \E arg \in Identities \cup {NoArgument} :
        /\ changeUserCalls < maxCalls
        /\ InstallUser(changeUser(CurUser, arg, changeUserCalls + 1))
        /\ UNCHANGED <<envVars, sessionVars, closePending, lifeVars, timeVars,
                       authenticationToken, immediates, closeVars, service>>

\* _client._activateSession calls back, with an error or without
ActivateSessionReturns ==
    \E a \in activations, err1 \in BOOLEAN :
        /\ InstallUser(activateSessionCallback(CurUser, a, err1))
        /\ UNCHANGED <<envVars, sessionVars, closePending, lifeVars, timeVars,
                       authenticationToken, immediates, closeVars, service>>

\* the owning client gives the session it created the identity it was created for
ClientSetsUserIdentity ==
    /\ userIdentityInfo = NoIdentity
    /\ userIdentityInfo' \in Identities
    /\ UNCHANGED <<envVars, sessionVars, closePending, lifeVars, timeVars,
                   authenticationToken, activations, changeUserResults, immediates,
                   closeVars, service>>

\* the owning client gives the session the token of a created or re-created session
TokenChange ==
    /\ authenticationToken < MaxToken
    /\ authenticationToken' = authenticationToken + 1
    /\ UNCHANGED <<envVars, sessionVars, closePending, lifeVars, timeVars, userVars,
                   immediates, closeVars, service>>

Next ==
    \/ Submit(Kinds, MaxTxn)
    \/ ChannelResponse(Responses)
    \/ RepairReturns
    \/ SessionRestored(MaxAttempt)
    \/ ReconnectablePush(MaxTxn)
    \/ Close(MaxClose)
    \/ CloseSessionReturns({FALSE})
    \/ ChannelChange
    \/ ReconnectingChange

Spec == Init /\ [][Next]_vars

\* The drain of the queue on a healthy session: ordinary requests, answers that are
\* not of the invalid-session class, no close, no reconnection.
NextDrain ==
    \/ Submit(Ordinary, MaxDrainTxn)
    \/ ChannelResponse({Good, BadTimeout})
    \/ ReconnectablePushBehindWorker(MaxDrainTxn)

SpecDrain == Init /\ [][NextDrain]_vars

\* The session with an owning client that is not reconnecting and is never closed,
\* a channel that answers every request and a repair that always returns.
NextFair ==
    \/ Submit(Ordinary, MaxFairTxn)
    \/ ChannelResponse(Responses)
    \/ RepairReturns
    \/ ReconnectablePushBehindWorker(MaxFairTxn)

FairSpec ==
    /\ Init
    /\ [][NextFair]_vars
    /\ WF_vars(ChannelResponse(Responses))
    /\ WF_vars(RepairReturns)

\* The session while the reconnection module sets and clears its flag: ordinary
\* requests only, the owning client stays attached and its channel stays open.
NextReconnect ==
    \/ Submit(Ordinary, MaxReconnectTxn)
    \/ ChannelResponse(Responses)
    \/ RepairReturns
    \/ SessionRestored(MaxAttempt)
    \/ ReconnectingChange

SpecReconnect == Init /\ [][NextReconnect]_vars

\* The wait for "session_restored": ordinary requests on a session whose reconnection
\* flag and whose owning client's reconnection flag are set and cleared and whose
\* channel opens and closes, each request resubmitted up to MaxResubmit times.
NextRestore ==
    \/ Submit(Ordinary, MaxRestoreTxn)
    \/ ChannelResponse(Responses)
    \/ RepairReturns
    \/ SessionRestored(MaxResubmit)
    \/ ReconnectingChange
    \/ ClientReconnectingChange
    \/ ChannelChange

SpecRestore == Init /\ [][NextRestore]_vars

\* The session whose authentication token is replaced while requests are in flight,
\* wait for "session_restored" or wait for a repair.
NextToken ==
    \/ Submit(Ordinary, MaxTokenTxn)
    \/ ChannelResponse(Responses)
    \/ RepairReturns
    \/ SessionRestored(MaxAttempt)
    \/ ReconnectingChange
    \/ TokenChange

SpecToken == Init /\ [][NextToken]_vars

\* The identity of the session: calls of changeUser that overlap, activations that
\* succeed and fail, on a session with and without an identity, before and after the
\* owning client has let go of it.
NextUser ==
    \/ ChangeUser(MaxUserCalls)
    \/ ActivateSessionReturns
    \/ ClientSetsUserIdentity
    \/ Close(MaxClose)
    \/ CloseSessionReturns(BOOLEAN)

SpecUser == Init /\ [][NextUser]_vars

\* Requests of the subscription service set on a session whose close event is
\* emitted at any time, with transactions parked on the queue; a callback handed to
\* setImmediate runs.
NextDefault ==
    \/ DefaultRequest(DefaultKinds, MaxDefaultTxn)
    \/ ImmediateRuns
    \/ EmitCloseEvent
    \/ ChannelResponse({Good})
    \/ ReconnectablePush(MaxDefaultTxn)

SpecDefault == Init /\ [][NextDefault]_vars /\ WF_vars(ImmediateRuns)

\* Closing a session whose publish engine holds subscriptions, the owning client
\* reporting an error or none when it has closed the session.
NextClose ==
    \/ Close(MaxCloseCalls)
    \/ CloseSessionReturns(BOOLEAN)
    \/ GetPublishEngine
    \/ RegisterSubscription(MaxSubscriptions)
    \/ ReconnectingChange
    \/ ChannelChange

SpecClose == Init /\ [][NextClose]_vars

\* Requests of every kind, the privileged ones among them, answered with every
\* transport answer while transactions are parked on the queue, repairs run and the
\* reconnection flag is set and cleared.
NextPrivileged ==
    \/ Submit(Kinds, MaxTxn)
    \/ ChannelResponse(Responses)
    \/ RepairReturns
    \/ SessionRestored(MaxAttempt)
    \/ ReconnectablePush(MaxTxn)
    \/ ReconnectingChange

SpecPrivileged == Init /\ [][NextPrivileged]_vars

\* The session under a clock that advances: requests of every kind, their answers,
\* repairs, and a channel that opens and closes.
NextClock ==
    \/ Submit(Kinds, MaxClockTxn)
    \/ ChannelResponse(Responses)
    \/ RepairReturns
    \/ ChannelChange
    \/ Tick(MaxClock)

SpecClock == Init /\ [][NextClock]_vars

\* The life cycle of the session: close, the close event, the publish engine and the
\* keep-alive manager, next to one transaction.
NextLife ==
    \/ Close(MaxLifeClose)
    \/ CloseSessionReturns(BOOLEAN)
    \/ EmitCloseEvent
    \/ GetPublishEngine
    \/ StartKeepAliveManager
    \/ StopKeepAliveManager
    \/ Dispose
    \/ Submit(Kinds, MaxLifeTxn)
    \/ ChannelResponse({Good})

SpecLife == Init /\ [][NextLife]_vars

\* A session at any time of its life: the owning client has set any timeout, the
\* last request was sent at any time and the clock reads any time.
InitLifetime ==
    /\ client = TRUE
    /\ channelValid = TRUE
    /\ clientIsReconnecting = FALSE
    /\ reconnecting = FALSE
    /\ pendingTransactions = <<>>
    /\ recursive_repair_detector = 0
    /\ lastRequestSentTime \in 0..MaxTime
    /\ lastResponseReceivedTime = 0
    /\ now \in 0..MaxTime
    /\ inflight = {}
    /\ restoreListeners = <<>>
    /\ repairing = {}
    /\ completions = <<>>
    /\ nextId = 1
    /\ closePending = 0
    /\ closeEventHasBeenEmitted = FALSE
    /\ sessionClosedEmitted = 0
    /\ publishEngine = FALSE
    /\ keepAliveManager = FALSE
    /\ closeCalls = 0
    /\ closeCallbacks = 0
    /\ timeout \in 0..MaxTimeout
    /\ remainingLifetime = 0
    /\ authenticationToken = 1
    /\ userIdentityInfo = NoIdentity
    /\ activations = {}
    /\ changeUserResults = <<>>
    /\ immediates = <<>>
    /\ engineSubscriptions = 0
    /\ closeSessionSeen = {}
    /\ closeResults = {}
    /\ requestHeaders = [x \in {} |-> HandleNotSet]
    /\ service = NoService

NextLifetime ==
    \/ EvaluateRemainingLifetime
    \/ Tick(MaxNow)

SpecLifetime == InitLifetime /\ [][NextLifetime]_vars

\* the values a server gives as results
ResultValues == {"v1", "v2"}

SeqsUpTo(S, k) == UNION {[1..m -> S] : m \in 0..k}

\* the answers to one transaction: results of any length, or no results field
ResponseTypes == {"expected", "wrong"}   \* response instanceof the operation's response class

ServiceResponses ==
    {[type |-> t, hasResults |-> TRUE, results |-> r] :
        t \in ResponseTypes, r \in SeqsUpTo(ResultValues, MaxItems)}
        \cup {[type |-> t, hasResults |-> FALSE, results |-> <<>>] : t \in ResponseTypes}

\* One call of one operation with one item or an array of 1..MaxItems items, answered
\* with an error (a missing response is one: _performMessageTransaction turns it into
\* "internal Error") or with any response.
InitService ==
    /\ client = TRUE
    /\ channelValid = TRUE
    /\ clientIsReconnecting = FALSE
    /\ reconnecting = FALSE
    /\ pendingTransactions = <<>>
    /\ recursive_repair_detector = 0
    /\ lastRequestSentTime = 0
    /\ lastResponseReceivedTime = 0
    /\ now = 1
    /\ inflight = {}
    /\ restoreListeners = <<>>
    /\ repairing = {}
    /\ completions = <<>>
    /\ nextId = 1
    /\ closePending = 0
    /\ closeEventHasBeenEmitted = FALSE
    /\ sessionClosedEmitted = 0
    /\ publishEngine = FALSE
    /\ keepAliveManager = FALSE
    /\ closeCalls = 0
    /\ closeCallbacks = 0
    /\ timeout = 0
    /\ remainingLifetime = 0
    /\ authenticationToken = 1
    /\ userIdentityInfo = NoIdentity
    /\ activations = {}
    /\ changeUserResults = <<>>
    /\ immediates = <<>>
    /\ engineSubscriptions = 0
    /\ closeSessionSeen = {}
    /\ closeResults = {}
    /\ requestHeaders = [x \in {} |-> HandleNotSet]
    /\ \E op \in Operations, isArray \in BOOLEAN, n \in 1..MaxItems, err \in BOOLEAN,
          response \in ServiceResponses, promote \in {"resolves", "rejects"},
          callbackThrows \in BOOLEAN :
            /\ ~isArray => n = 1
            /\ op \notin Promoting => promote = "resolves" /\ ~callbackThrows
            /\ err => response = [type |-> "expected", hasResults |-> FALSE, results |-> <<>>]
            /\ service = ServiceCall(op, isArray, n, err, response, promote, callbackThrows)

NextService ==
    \/ ServiceCallback
    \/ PromotionSettles

SpecService == InitService /\ [][NextService]_vars

\* the kinds of SpecAnswer: the ordinary one and one that bypasses the queue
AnswerKinds == Ordinary \cup {"PublishRequest"}

\* The session answered in every way the owning client can answer: the owning client
\* stays attached and is not reconnecting, requests are parked behind a transaction
\* in flight, repairs return.
NextAnswer ==
    \/ Submit(AnswerKinds, MaxAnswerTxn)
    \/ ChannelResponse(Answers)
    \/ RepairReturns
    \/ ReconnectablePushBehindWorker(MaxAnswerTxn)

SpecAnswer == Init /\ [][NextAnswer]_vars

\* ------------------------------------------------------- claim helpers
Last(s) == s[Len(s)]

IsPrefix(s, t) == Len(s) <= Len(t) /\ SubSeq(t, 1, Len(s)) = s

\* the step creates request nextId through performMessageTransaction
IsSubmitStep ==
    /\ nextId' = nextId + 1
    /\ \E r \in Requests' : r.id = nextId /\ r.via = "submit"

\* the request created by the step
NewRequest == CHOOSE r \in Requests' : r.id = nextId

\* the requests performMessageTransaction put on the queue itself
QueuedBySubmit ==
    {r \in SeqRange(pendingTransactions) : r.via = "submit"}
        \cup {e.req : e \in {x \in inflight \cup SeqRange(restoreListeners) \cup repairing :
                                x.fromQ /\ x.req.via = "submit"}}
        \cup {c.req : c \in {x \in SeqRange(completions) : x.fromQ /\ x.req.via = "submit"}}

CompletedAt(r) == {i \in 1..Len(completions) : completions[i].req = r}

C2_QueuedBehindNonEmptyQueue ==
    [][(client /\ Len(pendingTransactions) > 0 /\ IsSubmitStep
            /\ NewRequest.kind \notin Privileged)
        => /\ pendingTransactions' = Append(pendingTransactions, NewRequest)
           /\ inflight' = inflight
           /\ completions' = completions
           /\ lastRequestSentTime' = lastRequestSentTime]_vars

C2_Witness ==
    /\ Len(pendingTransactions) >= 2
    /\ Last(pendingTransactions).via = "submit"
    /\ ~channelValid
    /\ ~reconnecting

C6_PrivilegedBypassesQueue ==
    /\ [](\A r \in SeqRange(pendingTransactions) : r.kind \notin Privileged)
    /\ [][(client /\ IsSubmitStep /\ NewRequest.kind \in Privileged)
          => LET e == Entry(NewRequest, "direct", 0, FALSE) IN
             /\ pendingTransactions' = pendingTransactions
             /\ IF channelValid
                THEN /\ inflight' = inflight \cup {e}
                     /\ lastRequestSentTime' = now
                     /\ completions' = completions
                ELSE /\ inflight' = inflight
                     /\ completions' = Append(completions,
                            [req |-> e.req, err |-> ErrInvalidChannel, fromQ |-> FALSE])]_vars

C6_Witness ==
    /\ Len(pendingTransactions) > 0
    /\ isReconnecting
    /\ \E e \in inflight : e.req.kind \in Privileged /\ e.route = "direct" /\ e.req.id = 2

\* C7: on a closed session performMessageTransaction completes the caller at once
\* with the session-closed error, for every request kind, and touches nothing else:
\* no send, no enqueue, lastRequestSentTime unchanged.
C7_ClosedSessionFailsAtOnce ==
    [][(~client /\ IsSubmitStep)
        => /\ completions' = Append(completions,
                   [req |-> NewRequest, err |-> ErrSessionClosed, fromQ |-> FALSE])
           /\ inflight' = inflight
           /\ pendingTransactions' = pendingTransactions
           /\ lastRequestSentTime' = lastRequestSentTime
           /\ restoreListeners' = restoreListeners
           /\ repairing' = repairing]_vars

C7_Witness ==
    /\ ~client
    /\ lastRequestSentTime = 0
    /\ \E c \in SeqRange(completions) :
           c.err = ErrSessionClosed /\ c.req.kind \in Privileged
    /\ \E c \in SeqRange(completions) :
           c.err = ErrSessionClosed /\ c.req.kind \in Ordinary

\* C8 as stated: once close has been invoked, also before closeSession has called
\* back, a submitted transaction is completed with the session-closed error and
\* nothing reaches the channel.
C8_ClosedOnceCloseInvoked ==
    [][((closePending > 0 \/ ~client) /\ IsSubmitStep)
        => /\ inflight' = inflight
           /\ Last(completions').req = NewRequest
           /\ Last(completions').err = ErrSessionClosed]_vars

\* C8 amended: once closeSession has called back the session stays closed, and from
\* then on nothing is sent, nothing is queued and every submission is completed with
\* the session-closed error.
C8_ClosedOnceCloseSessionReturned ==
    [][~client
        => /\ ~client'
           /\ inflight' \subseteq inflight
           /\ lastRequestSentTime' = lastRequestSentTime
           /\ Len(pendingTransactions') <= Len(pendingTransactions)
           /\ IsSubmitStep =>
                  /\ Len(completions') = Len(completions) + 1
                  /\ Last(completions').req = NewRequest
                  /\ Last(completions').err = ErrSessionClosed]_vars

C8_Witness ==
    /\ ~client
    /\ inflight # {}
    /\ \E c \in SeqRange(completions) : c.err = ErrSessionClosed /\ c.req.via = "submit"

\* C9: the repair guard is 0 or 1, and it counts the repairs that have not returned.
C9_RepairGuardIsZeroOrOne ==
    /\ recursive_repair_detector \in {0, 1}
    /\ recursive_repair_detector = Cardinality(repairing)

C9_Witness ==
    /\ recursive_repair_detector = 0
    /\ \E c \in SeqRange(completions) : c.err = ErrCannotRecreate
    /\ \E c \in SeqRange(completions) : c.err = ErrRepairFailed

\* C10: a repair attempted while another is in progress is refused: the caller gets
\* "Cannot recreate session" in a step that leaves the guard and the running repair
\* as they are, a refusal happens only during a repair, and repair_client_session is
\* never outstanding twice.
C10_SecondRepairRefused ==
    /\ [](Cardinality(repairing) <= 1)
    /\ [][(Len(completions') > Len(completions)
             /\ Last(completions').err = ErrCannotRecreate)
          => /\ recursive_repair_detector = 1
             /\ recursive_repair_detector' = recursive_repair_detector
             /\ repairing' = repairing
             /\ repairing # {}
             /\ Len(completions') = Len(completions) + 1
             /\ restoreListeners' = restoreListeners
             /\ \E e \in inflight :
                    /\ e.route = "reprocess"
                    /\ inflight' = inflight \ {e}
                    /\ Last(completions').req = e.req]_vars

C10_Witness ==
    /\ recursive_repair_detector = 1
    /\ repairing # {}
    /\ Len(completions) > 0
    /\ Last(completions).err = ErrCannotRecreate

\* the completion the step appends first
FirstNewCompletion == completions'[Len(completions) + 1]

\* C11: an immediate attempt that is answered while nobody is reconnecting and no
\* repair runs is never completed with the invalid-session error: either it is
\* completed with another answer or it starts the repair and its caller waits. When
\* the repair returns without error the same request is sent by the direct send,
\* whatever the pending queue holds, and the caller is completed with exactly the
\* answer to that replay (or with the error the direct send raises at once).
C11_RepairThenReplay ==
    /\ [][\A e \in inflight :
            (e.route = "reprocess" /\ e \notin inflight' /\ ~isReconnecting
                /\ recursive_repair_detector = 0)
            => \/ /\ repairing' = {e}
                  /\ recursive_repair_detector' = 1
                  /\ completions' = completions
                  /\ pendingTransactions' = pendingTransactions
                  /\ inflight' = inflight \ {e}
               \/ /\ Len(completions') > Len(completions)
                  /\ FirstNewCompletion.req = e.req
                  /\ FirstNewCompletion.err \in Responses \ {BadSessionIdInvalid}]_vars
    /\ [][\A e \in repairing :
            (e \notin repairing' /\ Len(completions') = Len(completions))
            => /\ inflight' = inflight \cup {[e EXCEPT !.route = "replay"]}
               /\ isChannelValid
               /\ lastRequestSentTime' = now
               /\ pendingTransactions' = pendingTransactions
               /\ recursive_repair_detector' = 0]_vars
    /\ [][\A e \in repairing :
            (e \notin repairing' /\ Len(completions') > Len(completions))
            => /\ completions' = Append(completions,
                       [req |-> e.req, err |-> Last(completions').err, fromQ |-> e.fromQ])
               /\ Last(completions').err \in
                      {ErrRepairFailed}
                          \cup (IF ~client THEN {ErrSessionClosed}
                                ELSE IF ~channelValid THEN {ErrInvalidChannel} ELSE {})
               /\ inflight' = inflight
               /\ pendingTransactions' = pendingTransactions]_vars
    /\ [][\A e \in inflight :
            (e.route = "replay" /\ e \notin inflight')
            => /\ completions' = Append(completions,
                       [req |-> e.req, err |-> Last(completions').err, fromQ |-> e.fromQ])
               /\ Last(completions').err \in Responses
               /\ inflight' = inflight \ {e}
               /\ repairing' = repairing
               /\ restoreListeners' = restoreListeners
               /\ pendingTransactions' = pendingTransactions]_vars

C11_Witness ==
    /\ Len(pendingTransactions) > 0
    /\ recursive_repair_detector = 0
    /\ \E e \in inflight : e.route = "replay"

\* C12: a repair that returns with an error completes the caller that triggered it
\* with that error and does nothing else: no replay is sent, the pending queue, the
\* transactions in flight and the waiting listeners are as before, and the only new
\* completion is the triggering caller's. On an open session with an open channel a
\* repair that returns without a replay in flight has failed in this way.
C12_FailedRepairTouchesOnlyItsCaller ==
    /\ [][(Len(completions') > Len(completions)
             /\ FirstNewCompletion.err = ErrRepairFailed)
          => \E e \in repairing :
                /\ repairing' = repairing \ {e}
                /\ completions' = Append(completions,
                        [req |-> e.req, err |-> ErrRepairFailed, fromQ |-> e.fromQ])
                /\ inflight' = inflight
                /\ lastRequestSentTime' = lastRequestSentTime
                /\ pendingTransactions' = pendingTransactions
                /\ restoreListeners' = restoreListeners
                /\ recursive_repair_detector' = recursive_repair_detector - 1]_vars
    /\ [][\A e \in repairing :
            (e \notin repairing' /\ isChannelValid
                /\ [e EXCEPT !.route = "replay"] \notin inflight')
            => /\ Len(completions') = Len(completions) + 1
               /\ Last(completions').req = e.req
               /\ Last(completions').err = ErrRepairFailed]_vars

C12_Witness ==
    /\ Len(pendingTransactions) > 0
    /\ Len(completions) > 0
    /\ Last(completions).err = ErrRepairFailed
    /\ inflight = {}

\* the places a request can be in after the step, besides the listeners
SentAfter(r) == {x \in inflight' : x.req = r}

NewCompletionsOf(r) ==
    {i \in (Len(completions) + 1)..Len(completions') : completions'[i].req = r}

\* C13: an immediate attempt answered while isReconnecting holds is never completed
\* with the invalid-session error and starts no repair: either it is completed with
\* another answer or a one-shot listener for "session_restored" is registered and
\* the caller waits. While the listener is registered the request is neither sent
\* nor completed; the notification removes every listener and resubmits each request
\* exactly once, with the attempt count incremented by one.
C13_WaitsForSessionRestored ==
    /\ [][\A e \in inflight :
            (e.route = "reprocess" /\ e \notin inflight' /\ isReconnecting)
            => \/ /\ restoreListeners' = Append(restoreListeners, e)
                  /\ completions' = completions
                  /\ repairing' = repairing
                  /\ recursive_repair_detector' = recursive_repair_detector
                  /\ pendingTransactions' = pendingTransactions
                  /\ inflight' = inflight \ {e}
               \/ /\ Len(completions') > Len(completions)
                  /\ FirstNewCompletion.req = e.req
                  /\ FirstNewCompletion.err \in Responses \ {BadSessionIdInvalid}]_vars
    /\ [][\A e \in SeqRange(restoreListeners) :
            IF e \in SeqRange(restoreListeners')
            THEN /\ IsPrefix(restoreListeners, restoreListeners')
                 /\ SentAfter(e.req) = {}
                 /\ NewCompletionsOf(e.req) = {}
            ELSE /\ restoreListeners' = <<>>
                 /\ repairing' = repairing
                 /\ IF isChannelValid
                    THEN /\ SentAfter(e.req) = {[e EXCEPT !.attempt = @ + 1]}
                         /\ NewCompletionsOf(e.req) = {}
                    ELSE /\ SentAfter(e.req) = {}
                         /\ Cardinality(NewCompletionsOf(e.req)) = 1
                         /\ \A i \in NewCompletionsOf(e.req) :
                                completions'[i].err =
                                    IF client THEN ErrInvalidChannel ELSE ErrSessionClosed]_vars

C13_Witness ==
    /\ isReconnecting
    /\ restoreListeners = <<>>
    /\ recursive_repair_detector = 0
    /\ \E e \in inflight : e.route = "reprocess" /\ e.attempt = 1

\* the requests that have left the queue or never entered it
Dispatched ==
    {e.req : e \in inflight \cup SeqRange(restoreListeners) \cup repairing}
        \cup {c.req : c \in SeqRange(completions)}

\* C14: an ordinary request submitted while _reconnecting.reconnecting is true goes
\* to the tail of the pending queue and nothing is sent at submission, and requests
\* leave the queue in submission order.
C14_QueuedWhileReconnecting ==
    /\ [][(client /\ reconnecting /\ IsSubmitStep /\ NewRequest.kind \notin Privileged)
          => /\ pendingTransactions' = Append(pendingTransactions, NewRequest)
             /\ inflight' = inflight
             /\ lastRequestSentTime' = lastRequestSentTime]_vars
    /\ [](\A r \in SeqRange(pendingTransactions) : \A d \in Dispatched : d.id < r.id)

\* C15: "session_closed" is emitted at most once, it has been emitted exactly when
\* _closeEventHasBeenEmitted is set, and once set the flag is never cleared, whatever
\* the calls of emitCloseEvent, close and dispose and their order.
C15_SessionClosedAtMostOnce ==
    /\ [](sessionClosedEmitted <= 1)
    /\ [](closeEventHasBeenEmitted <=> sessionClosedEmitted = 1)
    /\ [][closeEventHasBeenEmitted => closeEventHasBeenEmitted']_vars

C15_Witness ==
    /\ sessionClosedEmitted = 1
    /\ closeCalls = 2
    /\ closeCallbacks = 2
    /\ ~client

\* the step is a call of close
IsCloseStep == closeCalls' = closeCalls + 1

\* C16: a call of close made after an earlier call, whether that one has completed
\* or still waits for _client.closeSession, asks the owning client for nothing and
\* sends nothing.
C16_SecondCloseRequestsNothing ==
    [][(IsCloseStep /\ closeCalls >= 1)
        => /\ closePending' = closePending
           /\ inflight' = inflight]_vars

\* C17: when close asks the owning client to close the session the keep-alive
\* manager has been stopped and the publish engine terminated, and the callback of
\* close fires only on a session that is closed.
C17_CloseStepsInOrder ==
    /\ [][(IsCloseStep /\ closePending' = closePending + 1)
          => /\ ~keepAliveManager'
             /\ ~publishEngine']_vars
    /\ [][closeCallbacks' = closeCallbacks + 1 => ~client']_vars

\* max(0, timeout - (now - lastRequestSentTime)) on the current state
LifetimeLeft ==
    LET d == timeout - (now - lastRequestSentTime) IN IF d > 0 THEN d ELSE 0

\* C18: evaluateRemainingLifetime() is max(0, timeout - (now - lastRequestSentTime)):
\* never negative, 0 from now = lastRequestSentTime + timeout on, and never larger
\* after the clock has advanced with the same lastRequestSentTime and timeout; the
\* value a call returns is the value of that formula at the time of the call.
C18_RemainingLifetime ==
    /\ [](LET v == evaluateRemainingLifetime(lastRequestSentTime, timeout, now) IN
            /\ v = LifetimeLeft
            /\ v >= 0
            /\ now >= lastRequestSentTime + timeout => v = 0)
    /\ [](remainingLifetime >= 0)
    /\ [][(now' >= now /\ lastRequestSentTime' = lastRequestSentTime /\ timeout' = timeout)
          => evaluateRemainingLifetime(lastRequestSentTime', timeout', now')
                 <= evaluateRemainingLifetime(lastRequestSentTime, timeout, now)]_vars
    /\ [][remainingLifetime' # remainingLifetime => remainingLifetime' = LifetimeLeft']_vars

C18_Witness ==
    /\ remainingLifetime = 2
    /\ timeout = 3
    /\ now > lastRequestSentTime + timeout
    /\ evaluateRemainingLifetime(lastRequestSentTime, timeout, now) = 0

\* the callback of the operation has run on an answer without error
Answered == service.outcome \notin {NoOutcome, AwaitingPromotion} /\ ~service.err

\* C19: when the answer carries one result per item and the promotion, where there
\* is one, resolves, a call with a single item delivers the first result as a scalar
\* and a call with an array of N items delivers the N results as an array in the
\* order of the answer, for N = 1 too.
C19_ShapeFollowsArgument ==
    (/\ Answered
     /\ service.response.type = "expected"
     /\ service.response.hasResults
     /\ Len(service.response.results) = service.n
     /\ service.promote = "resolves")
    => IF service.isArray
       THEN service.outcome = Outcome("array", service.response.results)
       ELSE service.outcome = Outcome("scalar", <<service.response.results[1]>>)

C19_Witness ==
    /\ Answered
    /\ service.op = "read"
    /\ service.isArray
    /\ service.n = 1
    /\ service.outcome = Outcome("array", <<"v2">>)

\* C20: a call with an array of N items delivers an array of N elements whatever
\* the answer carries: the results of the answer first, in order.
C20_ArrayOfRequestLength ==
    (Answered /\ service.isArray /\ service.response.type = "expected"
        /\ service.promote = "resolves")
    => /\ service.outcome.kind = "array"
       /\ Len(service.outcome.value) = service.n
       /\ \A i \in 1..Len(resultsOrEmpty(service.response)) :
              i <= service.n => service.outcome.value[i] = service.response.results[i]

\* the answer is not what the request asked for: another response class, or results
\* that are not one per item
Malformed ==
    \/ service.response.type # "expected"
    \/ Len(resultsOrEmpty(service.response)) # service.n

\* C21: an answer of the wrong response class, or whose results are not one per
\* requested item, makes the operation deliver an error to its caller: the internal
\* error, or for read and call the error of a promotion that rejected first.
C21_MalformedAnswerIsInternalError ==
    (Answered /\ Malformed) => service.outcome \in {InternalError, PromotionError}

\* the callback was called without an error
DeliveredSuccess == service.outcome.kind \in {"array", "scalar", "undefined"}

\* C22: what a caller receives without an error is a defined value of the shape of
\* the argument: a scalar for a single item, never undefined, and an array with one
\* element per item for an array.
C22_SuccessIsDefinedAndShaped ==
    DeliveredSuccess
    => IF service.isArray
       THEN service.outcome.kind = "array" /\ Len(service.outcome.value) = service.n
       ELSE service.outcome.kind = "scalar"

\* what the callback of the channel does in the current state when the transaction
\* e in flight is answered with res
AfterAnswer(e, res) == channelCallback([Cur EXCEPT !.fl = @ \ {e}], e, res)

\* the answer completes the caller of e with the error err, before anything else
CompletesWith(e, res, err) ==
    LET S2 == AfterAnswer(e, res) IN
    /\ Len(S2.done) > Len(completions)
    /\ S2.done[Len(completions) + 1] = [req |-> e.req, err |-> err, fromQ |-> e.fromQ]

\* the answers #reprocessRequest keeps from the caller of e
KeptForRepair(e, res) ==
    /\ e.route = "reprocess"
    /\ res = ServiceBadSessionIdInvalid
    /\ e.req.kind # "ActivateSessionRequest"

\* C23 as stated: whatever transaction is in flight, on whatever path it was sent,
\* an answer whose service result is not Good completes its caller with the error
\* made of that service result.
C23_ServiceErrorCompletesCaller ==
    \A e \in inflight : \A res \in ServiceErrors : CompletesWith(e, res, res)

\* C23 amended: an answer whose service result is not Good completes the caller
\* with the error made of that service result on the privileged bypass and on the
\* replay after a repair for every service result, and on the immediate send and the
\* drain of the queue for every service result but BadSessionIdInvalid; that one
\* completes nobody with the service error: the caller waits for the repair or for
\* "session_restored", or is refused with "Cannot recreate session".
C23_ServiceErrorCompletesCallerButForRepair ==
    \A e \in inflight : \A res \in ServiceErrors :
        IF KeptForRepair(e, res)
        THEN LET S2 == AfterAnswer(e, res) IN
             /\ \A i \in (Len(completions) + 1)..Len(S2.done) : S2.done[i].err # res
             /\ \/ S2.repairing = repairing \cup {e} /\ S2.done = completions
                \/ S2.listeners = Append(restoreListeners, e) /\ S2.done = completions
                \/ CompletesWith(e, res, ErrCannotRecreate)
        ELSE CompletesWith(e, res, res)

C23_Witness ==
    /\ \E c \in SeqRange(completions) :
           c.err = ServiceBadSessionIdInvalid /\ c.req.kind \in Ordinary
    /\ \E c \in SeqRange(completions) : c.err = ServiceBadTimeout /\ c.fromQ

\* the errors that are not of the invalid-session class
DirectErrors ==
    {ErrSessionClosed, ErrInvalidChannel, BadTimeout, ErrInternal, ServiceBadTimeout}

\* the requests the session still works on in the handler state S
HeldIn(S) ==
    SeqRange(S.q) \cup {x.req : x \in S.fl \cup SeqRange(S.listeners) \cup S.repairing}

\* C24: an attempt that ends with an error that is not of the invalid-session class
\* completes its caller with that error at once and drops the request: whatever
\* transaction in flight is answered with such an error, its caller comes first in
\* the completions, no repair starts, and the request is neither sent again, nor
\* queued, nor left waiting; a request completed with such an error is completed once
\* and is held nowhere in the session.
C24_OtherErrorsGoStraightToCaller ==
    /\ \A e \in inflight : \A res \in {BadTimeout, NoResponse, ServiceBadTimeout} :
           LET S2 == AfterAnswer(e, res) IN
           /\ CompletesWith(e, res, transactionError(res))
           /\ transactionError(res) \in DirectErrors
           /\ e.req \notin HeldIn(S2)
           /\ S2.repairing = repairing
           /\ S2.detector = recursive_repair_detector
           /\ S2.listeners = restoreListeners
    /\ \A i \in 1..Len(completions) :
           completions[i].err \in DirectErrors
           => /\ completions[i].req \notin HeldIn(Cur)
              /\ CompletedAt(completions[i].req) = {i}

C24_Witness ==
    /\ \E c \in SeqRange(completions) : c.err = BadTimeout /\ c.req.kind \in Ordinary
    /\ \E c \in SeqRange(completions) : c.err = ErrInvalidChannel /\ c.req.kind \in Ordinary

\* C25: read and call deliver a result only in the step in which the promotion
\* resolves; a promotion that rejects delivers its error and no result; and in both
\* outcomes the caller's callback has been called exactly once.
C25_PromotionBeforeCompletion ==
    /\ [][(service.op \in Promoting /\ ~DeliveredSuccess /\ DeliveredSuccess')
          => service.outcome = AwaitingPromotion /\ service.promote = "resolves"]_vars
    /\ [][(service.outcome = AwaitingPromotion /\ service.promote = "rejects"
             /\ service'.outcome # service.outcome)
          => service'.outcome = PromotionError]_vars
    /\ []((service.op \in Promoting /\ service.outcome \notin {NoOutcome, AwaitingPromotion})
            => service.calls = 1)

\* C27: every repair ends the repair state. In the step in which the re-creation
\* returns, with or without error, the guard is 0 and no repair is outstanding, be the
\* replay in flight or the error delivered; the guard is 0 whenever no repair is
\* outstanding; and then an immediate attempt answered with an invalid-session error
\* while nobody is reconnecting starts a new repair and is not refused.
C27_RepairEndsRepairState ==
    /\ [][\A e \in repairing :
            e \notin repairing'
            => /\ recursive_repair_detector' = 0
               /\ repairing' = {}
               /\ \/ [e EXCEPT !.route = "replay"] \in inflight'
                  \/ /\ Len(completions') = Len(completions) + 1
                     /\ Last(completions').req = e.req]_vars
    /\ [](repairing = {} => recursive_repair_detector = 0)
    /\ [](\A e \in inflight, res \in {BadSessionIdInvalid, ServiceBadSessionIdInvalid} :
            (e.route = "reprocess" /\ repairing = {} /\ ~isReconnecting)
            => /\ AfterAnswer(e, res).repairing = {e}
               /\ AfterAnswer(e, res).detector = 1
               /\ AfterAnswer(e, res).done = completions)

\* a repair has failed and a later invalid-session error has started the next one
C27_Witness ==
    /\ repairing # {}
    /\ recursive_repair_detector = 1
    /\ \E c \in SeqRange(completions) : c.err = ErrRepairFailed

\* C28: nothing bounds the resubmissions on the wait-for-restore path. A transaction
\* waits for "session_restored" only after an invalid-session answer received while
\* the session was reconnecting, and it keeps its count while it waits; when the
\* notification comes it is sent again with its count raised by one, whatever the
\* count was, and its caller is not completed (on a closed channel the direct send
\* fails and completes it); a transaction on its k-th resubmission has no completion.
C28_NoBoundOnResubmissions ==
    /\ [][\A i \in 1..Len(restoreListeners) :
            LET e == restoreListeners[i] IN
            e \notin SeqRange(restoreListeners')
            => IF isChannelValid
               THEN /\ [e EXCEPT !.attempt = @ + 1] \in inflight'
                    /\ \A j \in 1..Len(completions') : completions'[j].req # e.req
               ELSE /\ \E j \in 1..Len(completions') :
                           /\ completions'[j].req = e.req
                           /\ completions'[j].err = ErrInvalidChannel
                    /\ \A x \in inflight' : x.req # e.req]_vars
    /\ [][\A e \in SeqRange(restoreListeners') :
            e \notin SeqRange(restoreListeners)
            => e \in inflight /\ e \notin inflight' /\ isReconnecting
                 /\ e.route = "reprocess"]_vars
    /\ [](\A e \in inflight \cup SeqRange(restoreListeners) :
            e.attempt > 0 => CompletedAt(e.req) = {})

\* a transaction is on its MaxResubmit-th resubmission and its caller still waits
C28_Witness ==
    \E e \in inflight :
        /\ e.attempt = MaxResubmit
        /\ CompletedAt(e.req) = {}

\* a request is handed to the owning client's channel in the step
HandedToChannel == \E e \in inflight' : e \notin inflight

\* the answer to a request in flight comes back in the step
AnswerComesBack == \E e \in inflight : e \notin inflight'

\* C29: under a clock that does not go back, lastRequestSentTime and
\* lastResponseReceivedTime never decrease and never lie ahead of the clock;
\* lastRequestSentTime becomes the current time in every step that hands a request to
\* the channel and changes in no other step, and lastResponseReceivedTime becomes the
\* current time in every step in which an answer comes back and changes in no other.
C29_TimesNeverDecrease ==
    /\ [][now' >= now
            => /\ lastRequestSentTime' >= lastRequestSentTime
               /\ lastResponseReceivedTime' >= lastResponseReceivedTime]_vars
    /\ [](lastRequestSentTime <= now /\ lastResponseReceivedTime <= now)
    /\ [][HandedToChannel => lastRequestSentTime' = now]_vars
    /\ [][lastRequestSentTime' # lastRequestSentTime => HandedToChannel]_vars
    /\ [][AnswerComesBack => lastResponseReceivedTime' = now]_vars
    /\ [][lastResponseReceivedTime' # lastResponseReceivedTime => AnswerComesBack]_vars

\* a request was sent, the clock advanced, its answer came back, the clock advanced
\* again and a request was refused on a closed channel
C29_Witness ==
    /\ 0 < lastRequestSentTime
    /\ lastRequestSentTime < lastResponseReceivedTime
    /\ lastResponseReceivedTime < now
    /\ Len(completions) > 0
    /\ Last(completions).err = ErrInvalidChannel

\* the step delivers the error of a failed or of a refused repair
RepairGivesUp ==
    /\ Len(completions') > Len(completions)
    /\ FirstNewCompletion.err \in {ErrRepairFailed, ErrCannotRecreate}

\* transactions are queued and nothing is left that would drain the queue: no
\* #reprocessRequest waits for an answer or for "session_restored"
QueueAbandoned ==
    /\ pendingTransactions # <<>>
    /\ ~DrainWorker
    /\ restoreListeners = <<>>

\* C30: the step that delivers the error of a failed or refused repair leaves the
\* pending queue as it is, hands nothing to the channel and completes nobody else.
\* A transaction leaves the queue only in a step that begins with the completion of
\* a #reprocessRequest (an answer that comes back, or a resubmission the direct send
\* refuses) with an error that is not the repair's. Once transactions are queued and
\* no #reprocessRequest is outstanding, that stays so for ever: the queue only grows,
\* and every ordinary request submitted on the open session is appended to it.
C30_FailedRepairLeavesQueueWaiting ==
    /\ [][RepairGivesUp
            => /\ pendingTransactions' = pendingTransactions
               /\ inflight' \subseteq inflight
               /\ Len(completions') = Len(completions) + 1]_vars
    /\ [][~IsPrefix(pendingTransactions, pendingTransactions')
            => /\ Len(completions') > Len(completions)
               /\ FirstNewCompletion.err \notin {ErrRepairFailed, ErrCannotRecreate}
               /\ \E e \in inflight \cup SeqRange(restoreListeners) :
                      /\ e.route = "reprocess"
                      /\ e \notin inflight' \cup SeqRange(restoreListeners')
                      /\ FirstNewCompletion.req = e.req]_vars
    /\ [][QueueAbandoned
            => /\ QueueAbandoned'
               /\ IsPrefix(pendingTransactions, pendingTransactions')
               /\ (client /\ IsSubmitStep /\ NewRequest.kind \notin Privileged)
                    => pendingTransactions' = Append(pendingTransactions, NewRequest)]_vars

\* the repair has failed with a transaction on the queue, nothing is in flight, and
\* a request submitted afterwards waits behind it
C30_Witness ==
    /\ QueueAbandoned
    /\ inflight = {}
    /\ repairing = {}
    /\ Len(completions) = 1
    /\ Last(completions).err = ErrRepairFailed
    /\ Len(pendingTransactions) = 2
    /\ pendingTransactions[1].via = "push"
    /\ pendingTransactions[2].via = "submit"

\* C31: on a session that only the session itself works on (submissions, answers,
\* repairs, "session_restored", changes of the reconnecting flag) the pending queue is
\* always empty, and a submission of any kind made now would leave it empty.
C31_NeverEnqueuesIntoEmptyQueue ==
    /\ pendingTransactions = <<>>
    /\ \A k \in Kinds :
           performMessageTransaction(Cur, [id |-> nextId, kind |-> k, via |-> "submit"]).q = <<>>

\* two submitted transactions are in flight together while the session reconnects
C31_Witness ==
    /\ pendingTransactions = <<>>
    /\ isReconnecting
    /\ Cardinality(inflight) >= 2
    /\ \A e \in inflight : e.req.via = "submit"

\* C32: while the session has its client and the channel is not open, a direct send
\* answers "Invalid Channel BadConnectionClosed" and touches nothing; no step hands a
\* request to the channel or changes lastRequestSentTime, and
\* lastResponseReceivedTime changes only when an answer comes back. A request
\* submitted to the direct send (a privileged one, or an ordinary one on an empty
\* queue) is completed with that error in the same step and is not queued; a repair
\* that returns completes its caller (with that error or the repair's) and sends no
\* replay; the error is not of the invalid-session class, so no repair starts and
\* nobody is left waiting for "session_restored".
C32_InvalidChannelFailsDirectSend ==
    /\ []((client /\ ~channelValid)
            => /\ \A k \in Kinds, route \in {"direct", "reprocess", "replay"} :
                      LET e == Entry([id |-> nextId, kind |-> k, via |-> "submit"], route, 0, FALSE) IN
                      private_performMessageTransaction(Cur, e) = [s |-> Cur, err |-> ErrInvalidChannel]
               /\ ~matchBadSessionIdInvalid(ErrInvalidChannel))
    /\ [][(client /\ ~channelValid)
            => /\ inflight' \subseteq inflight
               /\ lastRequestSentTime' = lastRequestSentTime
               /\ (lastResponseReceivedTime' # lastResponseReceivedTime => AnswerComesBack)]_vars
    /\ [][(client /\ ~channelValid /\ IsSubmitStep
              /\ (NewRequest.kind \in Privileged \/ pendingTransactions = <<>>))
            => /\ completions' = Append(completions,
                      [req |-> NewRequest, err |-> ErrInvalidChannel, fromQ |-> FALSE])
               /\ pendingTransactions' = pendingTransactions
               /\ repairing' = repairing
               /\ recursive_repair_detector' = recursive_repair_detector
               /\ restoreListeners' = restoreListeners
               /\ lastResponseReceivedTime' = lastResponseReceivedTime]_vars
    /\ [][\A e \in repairing :
            (client /\ ~channelValid /\ e \notin repairing')
            => /\ Len(completions') = Len(completions) + 1
               /\ Last(completions').req = e.req
               /\ Last(completions').err \in {ErrInvalidChannel, ErrRepairFailed}
               /\ repairing' = repairing \ {e}]_vars

\* a request was sent earlier; later an ordinary request met a closed channel and
\* was completed with the invalid-channel error, the time of the last send unchanged
C32_Witness ==
    /\ 0 < lastRequestSentTime
    /\ lastRequestSentTime < now
    /\ ~channelValid
    /\ recursive_repair_detector = 0
    /\ Len(completions) > 0
    /\ Last(completions).err = ErrInvalidChannel
    /\ Last(completions).req.kind \in Ordinary

\* the answers that make an invalid-session error
InvalidSessionAnswers == {BadSessionIdInvalid, ServiceBadSessionIdInvalid}

\* C33: a privileged request is in flight on the direct route only and is never
\* inside a repair or waiting for "session_restored"; whichever invalid-session
\* answer it gets, its caller is completed with that error in that step, and the
\* pending queue, the repair guard, the running repair and the waiting listeners
\* stay as they are and nothing else is sent.
C33_PrivilegedFailsDirectly ==
    /\ \A x \in repairing \cup SeqRange(restoreListeners) : x.req.kind \notin Privileged
    /\ \A e \in inflight :
           e.req.kind \in Privileged
           => /\ e.route = "direct"
              /\ \A res \in InvalidSessionAnswers :
                    LET S2 == AfterAnswer(e, res) IN
                    /\ S2.done = Append(completions,
                            [req |-> e.req, err |-> res, fromQ |-> FALSE])
                    /\ S2.q = pendingTransactions
                    /\ S2.fl = inflight \ {e}
                    /\ S2.repairing = repairing
                    /\ S2.detector = recursive_repair_detector
                    /\ S2.listeners = restoreListeners
                    /\ S2.lrs = lastRequestSentTime

\* a privileged request was completed with the invalid-session error while a
\* transaction waits on the queue, and no repair runs
C33_Witness ==
    /\ Len(pendingTransactions) > 0
    /\ repairing = {}
    /\ restoreListeners = <<>>
    /\ Len(completions) > 0
    /\ Last(completions).err = BadSessionIdInvalid
    /\ Last(completions).req.kind \in Privileged

\* C34: the replay after a repair is the last attempt. A request whose replay is in
\* flight is nowhere else in the session and has no completion yet; whatever answer
\* the replay gets, an invalid-session one included, the caller is completed with
\* that answer's error in that step, the request is held nowhere afterwards, and the
\* repair guard, the running repair, the waiting listeners and the pending queue
\* stay as they are: no second repair, no wait, no further replay.
C34_ReplayAttemptedOnce ==
    \A e \in inflight :
        e.route = "replay"
        => /\ CompletedAt(e.req) = {}
           /\ e.req \notin HeldIn([Cur EXCEPT !.fl = @ \ {e}])
           /\ \A res \in Answers :
                 LET S2 == AfterAnswer(e, res) IN
                 /\ S2.done = Append(completions,
                         [req |-> e.req, err |-> transactionError(res), fromQ |-> e.fromQ])
                 /\ e.req \notin HeldIn(S2)
                 /\ S2.fl = inflight \ {e}
                 /\ S2.repairing = repairing
                 /\ S2.detector = recursive_repair_detector
                 /\ S2.listeners = restoreListeners
                 /\ S2.q = pendingTransactions

\* a replay was answered with an invalid-session service result and its caller got
\* that error; no repair runs
C34_Witness ==
    /\ repairing = {}
    /\ recursive_repair_detector = 0
    /\ Len(completions) > 0
    /\ Last(completions).err = ServiceBadSessionIdInvalid
    /\ Last(completions).req.kind \in Ordinary

\* the errors a caller can be completed with, by the path that delivers them
CompletionPaths ==
    [closed |-> {ErrSessionClosed},
     normal |-> Responses \cup {ErrInvalidChannel},
     refused |-> {ErrCannotRecreate},
     failed |-> {ErrRepairFailed}]

\* C35: no caller is completed twice. Every request has at most one completion, a
\* completed request is nowhere in the session any more (not queued, not in flight,
\* not waiting, not in a repair), so no path is left that could complete it again,
\* and every step adds completions only for requests that the session held before
\* the step or that the step submitted.
C35_CompletionFiresAtMostOnce ==
    /\ [](\A i, j \in 1..Len(completions) :
            completions[i].req.id = completions[j].req.id => i = j)
    /\ [](\A i \in 1..Len(completions) :
            /\ completions[i].req \notin HeldIn(Cur)
            /\ \E p \in DOMAIN CompletionPaths : completions[i].err \in CompletionPaths[p])
    /\ [][\A i \in (Len(completions) + 1)..Len(completions') :
            \/ completions'[i].req \in HeldIn(Cur)
            \/ IsSubmitStep /\ completions'[i].req = NewRequest]_vars

\* one caller got the refusal of a second repair, the other the answer to its replay
C35_Witness ==
    /\ Len(completions) = 2
    /\ completions[1].err = ErrCannotRecreate
    /\ completions[2].err = Good
    /\ inflight = {}
    /\ repairing = {}

\* how many times the request with this id occurs in the sequence s of requests
Occurrences(s, id) == Cardinality({i \in 1..Len(s) : s[i].id = id})

\* the number of places that hold the request with this id, its completions included
PlacesOf(id) ==
    Occurrences(pendingTransactions, id)
        + Cardinality({e \in inflight : e.req.id = id})
        + Cardinality({i \in 1..Len(restoreListeners) : restoreListeners[i].req.id = id})
        + Cardinality({e \in repairing : e.req.id = id})
        + Cardinality({i \in 1..Len(completions) : completions[i].req.id = id})

C37_SentWithCurrentTokenAndFreshHandle ==
    [][/\ \A e \in inflight' \ inflight :
             /\ requestHeaders'[e.req.id].authenticationToken = authenticationToken'
             /\ e.req.id \in DOMAIN requestHeaders
                    => requestHeaders[e.req.id].requestHandle = HandleNotSet
       /\ \A e \in repairing' :
             requestHeaders'[e.req.id].requestHandle = HandleNotSet
       /\ \A i \in 1..Len(restoreListeners') :
             requestHeaders'[restoreListeners'[i].req.id].requestHandle = HandleNotSet]_vars

\* a replayed request and a resubmitted request are in flight under a token that
\* replaced the one the session was constructed with
C37_Witness ==
    /\ authenticationToken > 1
    /\ \E e \in inflight :
          /\ e.route = "replay"
          /\ requestHeaders[e.req.id].authenticationToken = authenticationToken
    /\ \E e \in inflight :
          /\ e.attempt > 0
          /\ requestHeaders[e.req.id].authenticationToken = authenticationToken
\* a call of changeUser is made in the step
IsChangeUserStep ==
    Len(changeUserResults') + Cardinality(activations')
        = Len(changeUserResults) + Cardinality(activations) + 1

\* the caller of call id receives status as a value, together with no error
ReceivesStatus(U, id, status) ==
    /\ U.results # <<>>
    /\ Last(U.results) = [id |-> id, err |-> NoError, status |-> status]

\* C38: an activation that changeUser started was started with a client and an
\* identity, and remembers the identity the session held when changeUser was called;
\* when it fails the session holds that identity again and the caller receives
\* BadUserAccessDenied as a value, when it succeeds the session holds the new identity
\* and the caller receives Good; a call on a session without client or without
\* identity starts no activation, leaves the identity alone and gives its caller
\* BadInternalError as a value.
C38_ChangeUserKeepsIdentityConsistent ==
    /\ [](\A a \in activations :
            LET failed == activateSessionCallback(CurUser, a, TRUE)
                succeeded == activateSessionCallback(CurUser, a, FALSE)
            IN  /\ failed.identity = a.old
                /\ ReceivesStatus(failed, a.id, BadUserAccessDenied)
                /\ Len(failed.results) = Len(changeUserResults) + 1
                /\ succeeded.identity = a.new
                /\ ReceivesStatus(succeeded, a.id, Good)
                /\ Len(succeeded.results) = Len(changeUserResults) + 1)
    /\ [][IsChangeUserStep
            => IF ~client \/ userIdentityInfo = NoIdentity
               THEN /\ activations' = activations
                    /\ userIdentityInfo' = userIdentityInfo
                    /\ ReceivesStatus([results |-> changeUserResults'],
                                      changeUserCalls + 1, BadInternalError)
               ELSE /\ changeUserResults' = changeUserResults
                    /\ userIdentityInfo' = userIdentityInfo
                    /\ \E a \in activations' \ activations :
                          /\ activations' = activations \cup {a}
                          /\ a.old = userIdentityInfo
                          /\ a.new \in Identities]_vars

\* of three calls one was refused for want of a client or an identity, one failed to
\* activate and one succeeded, the failed one after the successful one, and the
\* session holds an identity
C38_Witness ==
    /\ Len(changeUserResults) = 3
    /\ \E i, j, k \in 1..3 :
          /\ changeUserResults[i].status = BadInternalError
          /\ changeUserResults[j].status = Good
          /\ changeUserResults[k].status = BadUserAccessDenied
          /\ j < k
    /\ userIdentityInfo = "userA"
\* _defaultRequest is called in the step
IsDefaultRequestStep ==
    /\ nextId' = nextId + 1
    /\ \E r \in Requests' \cup SeqRange(immediates') :
          r.id = nextId /\ r.via = "defaultRequest"

\* the request with this id was completed with the error of a closed session
ClosedCompletion(id) ==
    \E i \in 1..Len(completions) :
        /\ completions[i].req.id = id
        /\ completions[i].err = ErrClientSessionClosed

\* C39: a call of _defaultRequest on a session whose close event has been emitted
\* leaves the queue, the requests in flight, the waiting transactions, the send time
\* and the completions as they are and hands one callback to setImmediate; when that
\* callback runs the caller receives "ClientSession is closed !" and nothing is sent
\* or queued; and every such callback runs.
C39_ClosedSessionRefusesDefaultRequests ==
    /\ [][(IsDefaultRequestStep /\ closeEventHasBeenEmitted)
            => /\ UNCHANGED <<pendingTransactions, inflight, restoreListeners, repairing,
                              completions, lastRequestSentTime, requestHeaders>>
               /\ Len(immediates') = Len(immediates) + 1
               /\ Last(immediates').id = nextId]_vars
    /\ [][Len(immediates') < Len(immediates)
            => /\ completions' = Append(completions,
                                        [req |-> Head(immediates),
                                         err |-> ErrClientSessionClosed, fromQ |-> FALSE])
               /\ UNCHANGED <<pendingTransactions, inflight, restoreListeners, repairing,
                              lastRequestSentTime>>]_vars
    /\ \A id \in 1..MaxDefaultTxn :
          (\E i \in 1..Len(immediates) : immediates[i].id = id) ~> ClosedCompletion(id)

\* a request was refused on the closed session while a transaction
\* was parked on the queue and another request, made before the close event, was in
\* flight
C39_Witness ==
    /\ closeEventHasBeenEmitted
    /\ pendingTransactions # <<>>
    /\ inflight # {}
    /\ \E i \in 1..Len(completions) :
          /\ completions[i].err = ErrClientSessionClosed
          /\ completions[i].req.via = "defaultRequest"
\* C40: the callback of close never receives an error, whatever _client.closeSession
\* reported; when _client.closeSession is called the session counts no subscription,
\* and after the call of close that requested it the session has no publish engine.
C40_CloseCompletesWithoutError ==
    /\ [](\A r \in closeResults : ~r.received)
    /\ [](\A o \in closeSessionSeen : o.atRequest = 0)
    /\ [][closePending' = closePending + 1
            => /\ ~publishEngine'
               /\ subscriptionCount(publishEngine', engineSubscriptions') = 0]_vars

\* close was called on a session that counted subscriptions and _client.closeSession
\* reported an error
C40_Witness ==
    /\ \E r \in closeResults : r.reported /\ ~r.received
    /\ \E o \in closeSessionSeen : o.atCall > 0 /\ o.atRequest = 0
====
